---- MODULE Spec2Model ----
(***************************************************************************)
(* Model of the Palo Alto police-log pipeline:                             *)
(*   step 4  pipeline/steps/step_4_process_data.py  (run_processing,       *)
(*           process_csv, the geocoding and offense-category caches)       *)
(*   step 5  pipeline/steps/step_5_prepare_output.py                       *)
(*           (prepare_data_for_website: concat, drop_duplicates, filter)   *)
(*                                                                         *)
(* A CSV cell is a sequence of tokens; the token " " is whitespace and the *)
(* empty sequence is the empty cell, which pandas reads as NaN.            *)
(***************************************************************************)
EXTENDS Integers, Sequences, FiniteSets, TLC

\* ---------------------------------------------------------------- bounds
MaxRuns  == 2   \* runs of run_processing in one behaviour
MaxFiles == 2   \* CSV files found by glob in one run
MaxRows  == 2   \* data rows of one CSV file

\* ------------------------------------------------------- generic helpers
NaN == <<>>

Range(s) == {s[i] : i \in 1..Len(s)}

EmptyDict == [k \in {} |-> ""]

\* d[key] = value
DictSet(d, key, value) ==
    [k \in (DOMAIN d) \cup {key} |-> IF k = key THEN value ELSE d[k]]

RECURSIVE Join(_)
\* the Python string a cell's tokens spell
Join(cell) == IF cell = <<>> THEN "" ELSE Head(cell) \o Join(Tail(cell))

RECURSIVE LStrip(_)
LStrip(cell) ==
    IF cell # <<>> /\ Head(cell) = " " THEN LStrip(Tail(cell)) ELSE cell

RECURSIVE RStrip(_)
RStrip(cell) ==
    IF cell # <<>> /\ cell[Len(cell)] = " "
    THEN RStrip(SubSeq(cell, 1, Len(cell) - 1))
    ELSE cell

\* str.strip()
Strip(cell) == RStrip(LStrip(cell))

RECURSIVE UniqueSeq(_, _)
UniqueSeq(s, seen) ==
    IF s = <<>> THEN <<>>
    ELSE IF Head(s) \in seen THEN UniqueSeq(Tail(s), seen)
         ELSE <<Head(s)>> \o UniqueSeq(Tail(s), seen \cup {Head(s)})

\* Python values a function is handed: a str (the pieces it is spelled
\* with, in order), None, or the float nan of an empty CSV cell.
Str(pieces) == [type |-> "str", value |-> pieces]
None        == [type |-> "NoneType", value |-> <<>>]
FloatNaN    == [type |-> "float", value |-> <<>>]

\* Time texts are spelled character by character.
Digits == << "0", "1", "2", "3", "4", "5", "6", "7", "8", "9" >>

IsDigit(c) == c \in Range(Digits)

RECURSIVE int(_)
int(chars) ==
    LET
        \* int() of one digit, of a run of digits
        DigitValue(c) == (CHOOSE i \in 1..Len(Digits) : Digits[i] = c) - 1
    IN
    IF chars = <<>> THEN 0
    ELSE 10 * int(SubSeq(chars, 1, Len(chars) - 1)) + DigitValue(chars[Len(chars)])


\* ------------------------------------------------ step 4: configuration
OFFENSE_CATEGORIES ==
    << "Theft", "Burglary", "Vehicle Crime", "Traffic Incidents",
       "Property Crime", "Violent/Person Crime", "Fraud/Financial Crime",
       "Public Order/Disturbance", "Warrant/Arrest", "Administrative/Other" >>

CategorySet == Range(OFFENSE_CATEGORIES)

DefaultCategory == "Administrative/Other"

\* f"{loc}, Palo Alto, CA"
FullQuery(loc) ==
    LET
        QuerySuffix == ", Palo Alto, CA"
    IN
    Join(loc) \o QuerySuffix

\* --------------------------------------------------- step 4: cache files
\* A cache file is absent, unreadable as JSON, holds a JSON object, or holds
\* valid JSON that is not an object: the empty array [].
MissingFile == [state |-> "missing", data |-> EmptyDict]
CorruptFile == [state |-> "corrupt", data |-> EmptyDict]
ArrayFile   == [state |-> "array", data |-> EmptyDict]
JsonFile(d) == [state |-> "ok", data |-> d]

\* search_place results: None, or the response body with its places list
ApiNone  == [kind |-> "None", places |-> <<>>]
ApiEmpty == [kind |-> "dict", places |-> <<>>]

JsonDumpGeo(cache) ==
    LET
        \* json.dump / json.load of one geocoding value: None <-> null
        ToJson(v)   == IF v.kind = "None" THEN [kind |-> "null", places |-> <<>>] ELSE v
    IN
    [k \in DOMAIN cache |-> ToJson(cache[k])]
JsonLoadGeo(data)  ==
    LET
        FromJson(j) == IF j.kind = "null" THEN ApiNone ELSE j
    IN
    [k \in DOMAIN data |-> FromJson(data[k])]

\* load_json_cache: {} for a missing file and for JSONDecodeError/IOError,
\* otherwise whatever json.load returns.  data is the loaded value seen as a
\* container (len, in): a JSON object's entries, nothing for the list [].
load_json_cache(file) ==
    IF file.state \in {"ok", "array"} THEN file.data ELSE EmptyDict

\* the value json.load returned is a list, not a dict
LoadsList(file) == file.state = "array"

\* ------------------------------------------ step 4: LLM categorization
\* What llm_client.messages.create led to: the except clause ("exception"),
\* a reply without a JSON object ("no_json"), or a reply whose {...} block
\* parsed to the object `map` ("json").
LlmReply(kind, map) == [kind |-> kind, map |-> map]

get_offense_categories_from_llm(offense_types_to_categorize, response, categories) ==
    LET
        AllDefault(offenses) == [ot \in Range(offenses) |-> DefaultCategory]
    IN
    IF offense_types_to_categorize = <<>> THEN EmptyDict
    ELSE IF response.kind = "exception"
         THEN AllDefault(offense_types_to_categorize)
    ELSE IF response.kind = "no_json" THEN EmptyDict
    ELSE LET category_map == response.map
             missing_keys == Range(offense_types_to_categorize) \ DOMAIN category_map
             with_missing ==
                 [k \in (DOMAIN category_map) \cup missing_keys |->
                     IF k \in missing_keys THEN DefaultCategory ELSE category_map[k]]
         IN  [k \in DOMAIN with_missing |->
                 IF with_missing[k] \notin Range(categories)
                 THEN DefaultCategory ELSE with_missing[k]]

\* ------------------------------------------------- step 4: geocoding
NA == "<NA>"

interpret_place_types(place_types) ==
    LET
        SpecificPlaceTypes ==
            { "establishment", "point_of_interest", "store", "restaurant", "park",
              "school", "hospital", "church", "library", "museum", "airport",
              "shopping_mall", "university", "transit_station", "gas_station", "lodging" }
    IN
    IF place_types = <<>> THEN "unknown"
    ELSE IF "intersection" \in Range(place_types) THEN "intersection"
    ELSE IF "street_address" \in Range(place_types) \/ "premise" \in Range(place_types)
         THEN "street_address_or_premise"
    ELSE IF "route" \in Range(place_types) THEN "route"
    ELSE IF Range(place_types) \cap SpecificPlaceTypes # {} THEN "specific_place"
    ELSE "general_area_or_other"

\* search_place: None without a key or on any request error, else the body
search_place(api_key, outcome) == IF api_key = "" THEN ApiNone ELSE outcome

GeoInvalid  == [latitude |-> NA, location_interpretation |-> "invalid_input"]
GeoFound(api_result) ==
    [latitude |-> api_result.places[1].latitude,
     location_interpretation |-> interpret_place_types(api_result.places[1].types)]

\* the else branch leaving every column, the interpretation too, at pd.NA
GeoOfNull(api_result) ==
    IF api_result.kind = "dict" /\ api_result.places # <<>>
    THEN GeoFound(api_result)
    ELSE [latitude |-> NA, location_interpretation |-> NA]

GeoOf(api_result) ==
    LET
        GeoNotFound == [latitude |-> NA, location_interpretation |-> "not_found"]
    IN
    IF api_result.kind = "dict" /\ api_result.places # <<>>
    THEN GeoFound(api_result) ELSE GeoNotFound

\* the loop storing a search result only when it holds a place
RECURSIVE GeocodeLoopFoundOnly(_, _, _, _, _, _)
GeocodeLoopFoundOnly(locs, api_key, cache, geo_results, calls, outcomes) ==
    IF locs = <<>>
    THEN [cache |-> cache, geo_results |-> geo_results, calls |-> calls]
    ELSE LET loc == Head(locs)
             full_query == FullQuery(loc)
         IN  IF Strip(loc) = <<>>
             THEN GeocodeLoopFoundOnly(Tail(locs), api_key, cache,
                              DictSet(geo_results, loc, GeoInvalid), calls, outcomes)
             ELSE IF full_query \in DOMAIN cache
             THEN GeocodeLoopFoundOnly(Tail(locs), api_key, cache,
                              DictSet(geo_results, loc, GeoOf(cache[full_query])),
                              calls, outcomes)
             ELSE LET api_result == search_place(api_key, outcomes[full_query])
                  IN  GeocodeLoopFoundOnly(Tail(locs), api_key,
                                  IF api_result.kind = "dict" /\ api_result.places # <<>>
                                  THEN DictSet(cache, full_query, api_result) ELSE cache,
                                  DictSet(geo_results, loc, GeoOf(api_result)),
                                  Append(calls, full_query), outcomes)

\* One pass of "for loc in unique_locations" with the rest of the loop.
\* outcomes[q] is what the geocoding service answers to query q.
RECURSIVE GeocodeLoop(_, _, _, _, _, _)
GeocodeLoop(locs, api_key, cache, geo_results, calls, outcomes) ==
    IF locs = <<>>
    THEN [cache |-> cache, geo_results |-> geo_results, calls |-> calls]
    ELSE LET loc == Head(locs)
             full_query == FullQuery(loc)
         IN  IF Strip(loc) = <<>>
             THEN GeocodeLoop(Tail(locs), api_key, cache,
                              DictSet(geo_results, loc, GeoInvalid), calls, outcomes)
             ELSE IF full_query \in DOMAIN cache
             THEN GeocodeLoop(Tail(locs), api_key, cache,
                              DictSet(geo_results, loc, GeoOf(cache[full_query])),
                              calls, outcomes)
             ELSE LET api_result == search_place(api_key, outcomes[full_query])
                  IN  GeocodeLoop(Tail(locs), api_key,
                                  DictSet(cache, full_query, api_result),
                                  DictSet(geo_results, loc, GeoOf(api_result)),
                                  Append(calls, full_query), outcomes)

\* ------------------------------------------------ step 4: process_csv
\* An input CSV: pd.read_csv raises ("unreadable"), raises EmptyDataError
\* ("empty"), yields a frame without the required columns ("no_columns"),
\* or yields the rows of a table.
CsvFile(kind, rows) == [kind |-> kind, rows |-> rows]

\* df['offense_type'].astype(str).str.strip()
OffenseText(row) ==
    LET
        \* Series.astype(str): NaN becomes the text "nan"
        AsStr(cell) == IF cell = NaN THEN <<"nan">> ELSE cell
    IN
    Join(Strip(AsStr(row.offense_type)))

RECURSIVE NotCachedNoLookup(_, _)
\* the list comprehension without its "not in offense_category_cache" test
NotCachedNoLookup(offenses, cache) ==
    IF offenses = <<>> THEN <<>>
    ELSE IF Head(offenses) # ""
         THEN <<Head(offenses)>> \o NotCachedNoLookup(Tail(offenses), cache)
         ELSE NotCachedNoLookup(Tail(offenses), cache)

RECURSIVE NotCached(_, _)
\* [o for o in unique_offenses if o and o not in offense_category_cache]
NotCached(offenses, cache) ==
    IF offenses = <<>> THEN <<>>
    ELSE IF Head(offenses) # "" /\ Head(offenses) \notin DOMAIN cache
         THEN <<Head(offenses)>> \o NotCached(Tail(offenses), cache)
         ELSE NotCached(Tail(offenses), cache)

RECURSIVE DropNaLocation(_)
\* df.dropna(subset=['location'])
DropNaLocation(rows) ==
    IF rows = <<>> THEN <<>>
    ELSE IF Head(rows).location = NaN THEN DropNaLocation(Tail(rows))
         ELSE <<Head(rows)>> \o DropNaLocation(Tail(rows))

process_csv(file, api_key, geocoding_cache, offense_category_cache, response, outcomes) ==
    LET
        \* dict.update(new)
        DictUpdate(d, new) ==
            [k \in (DOMAIN d) \cup (DOMAIN new) |-> IF k \in DOMAIN new THEN new[k] ELSE d[k]]
        \* Series.unique(): distinct values in order of first appearance
        Unique(s) == UniqueSeq(s, {})
        \* df['offense_type'].map(cache).fillna("Administrative/Other")
        CategoryOf(offense, cache) ==
            IF offense \in DOMAIN cache THEN cache[offense] ELSE DefaultCategory
        Unchanged(geo_cache, offense_cache, success) ==
            [ success |-> success, wrote |-> FALSE, rows |-> <<>>,
              geocoding_cache |-> geo_cache,
              offense_category_cache |-> offense_cache,
              llm_sent |-> <<>>, api_calls |-> <<>> ]
    IN
    IF file.kind = "unreadable"
    THEN Unchanged(geocoding_cache, offense_category_cache, FALSE)
    ELSE IF file.kind \in {"empty", "no_columns"}
    THEN Unchanged(geocoding_cache, offense_category_cache, TRUE)
    ELSE
    LET offense_types == [i \in 1..Len(file.rows) |-> OffenseText(file.rows[i])]
        offenses_to_categorize == NotCached(Unique(offense_types), offense_category_cache)
        new_categories ==
            get_offense_categories_from_llm(offenses_to_categorize, response,
                                            OFFENSE_CATEGORIES)
        new_offense_cache ==
            IF offenses_to_categorize # <<>>
            THEN DictUpdate(offense_category_cache, new_categories)
            ELSE offense_category_cache
        categorized ==
            [i \in 1..Len(file.rows) |->
                [ offense_type |-> offense_types[i],
                  offense_category |-> CategoryOf(offense_types[i], new_offense_cache),
                  location |-> file.rows[i].location ]]
        df == DropNaLocation(categorized)
        unique_locations == Unique([i \in 1..Len(df) |-> df[i].location])
        geo == GeocodeLoop(unique_locations, api_key, geocoding_cache,
                           EmptyDict, <<>>, outcomes)
    IN  [ success |-> TRUE, wrote |-> TRUE,
          rows |-> [i \in 1..Len(df) |->
                      [ offense_type |-> df[i].offense_type,
                        offense_category |-> df[i].offense_category,
                        location |-> df[i].location,
                        latitude |-> geo.geo_results[df[i].location].latitude,
                        location_interpretation |->
                            geo.geo_results[df[i].location].location_interpretation ]],
          geocoding_cache |-> geo.cache,
          offense_category_cache |-> new_offense_cache,
          llm_sent |-> offenses_to_categorize,
          api_calls |-> geo.calls ]

\* ------------------------------------------------- step 4: input sets

CsvFiles ==
    LET
        \* the rows an input CSV is made of: a plain row, a row whose offense text
        \* needs stripping and whose location is blank, and a row with a blank
        \* offense and an empty (NaN) location
        InputRows ==
            { [offense_type |-> <<"DUI">>,        location |-> <<"ALMA ST">>],
              [offense_type |-> <<" ", "THEFT">>, location |-> <<" ">>],
              [offense_type |-> <<" ">>,          location |-> NaN] }
        Tables == UNION {[1..n -> InputRows] : n \in 0..MaxRows}
    IN
    {CsvFile("table", t) : t \in Tables}
    \cup {CsvFile(k, <<>>) : k \in {"unreadable", "empty", "no_columns"}}

OffenseKeys == {"DUI", "THEFT"}
Queries     == {FullQuery(<<"ALMA ST">>)}

\* what the geocoding service can answer to one query
ApiOutcomes ==
    LET
        ApiPlace(lat, types) ==
            [kind |-> "dict", places |-> <<[latitude |-> lat, types |-> types]>>]
    IN
    {ApiNone, ApiEmpty, ApiPlace("37.4419", <<"route">>)}

LlmReplies ==
    LET
        \* what the classifier can answer.  "Stealing" stands for any text that is
        \* not one of OFFENSE_CATEGORIES.  "exception" is any failure that lands in
        \* the except clause (the API call or json.loads raising); "no_json" is any
        \* reply the function answers with {} (empty content, no {...} block).
        LlmValues == {"Theft", "Stealing"}
        LlmMaps   == UNION {[ks -> LlmValues] : ks \in SUBSET OffenseKeys}
    IN
    {LlmReply(k, EmptyDict) : k \in {"exception", "no_json"}}
    \cup {LlmReply("json", m) : m \in LlmMaps}

\* cache files found on disk before the first run
InitialGeoFiles ==
    { MissingFile, CorruptFile, ArrayFile,
      JsonFile(JsonDumpGeo([q \in Queries |-> ApiNone])) }

InitialOffenseFiles ==
    { MissingFile, CorruptFile, ArrayFile,
      JsonFile([o \in OffenseKeys |-> IF o = "DUI" THEN "Stealing" ELSE "Theft"]) }

\* --------------------------------------------------------------- state
VARIABLES
    API_KEY,                    \* os.getenv("GOOGLE_MAPS_API_KEY"), "" when unset
    geo_file,                   \* data/geocoding_cache.json
    offense_file,               \* data/offense_category_cache.json
    pc,                         \* position of run_processing: "idle" or "loop"
    runs,                       \* run_processing calls started so far
    files_left,                 \* csv_files still to process in this run
    geocoding_cache,            \* in-memory dicts of the current run
    offense_category_cache,
    initial_geo_cache_size,
    initial_offense_cache_size,
    processed_count,
    failed_count,
    written,                    \* rows of the last *_processed.csv written
    exit,                       \* how the last run ended
    \* history of the external calls, for the properties
    loaded,                     \* the two caches as load_json_cache returned them
    sent,                       \* offense strings the last process_csv sent to the LLM
    llm_called, llm_recalled,   \* strings sent at least once / more than once
    api_called, api_recalled,   \* queries searched at least once / more than once
    run_calls,                  \* external calls made by the current run
    cold,                       \* the run met an input string absent from the loaded caches
    geo_saved, offense_saved,   \* this run's save: "pending", "skipped", "saved" or "failed"
    save_failed,                \* per cache: some run's save_json_cache hit IOError
    \* main_orchestrator
    current_step,               \* the step the orchestrator has reached: 4 or 5
    exit_code,                  \* "none", or "1" after sys.exit(1)
    \* step 5
    processed_dir,              \* data/processed_csv_files: file name -> content
    web_pc,                     \* "ready" before prepare_data_for_website, then "done"
    csv_files,                  \* the file names in the order glob.glob returned them
    combined_df,                \* pd.concat(all_data_frames, ignore_index=True)
    deduped_df,                 \* combined_df after drop_duplicates
    records_removed,
    incidents,                  \* output_data written to incidents.json
    \* the analysis functions, each followed on its own
    arg,                        \* the value the function is called with
    returned,                   \* <<>> before the call, then <<its result>>
    \* the command line of run_pipeline.py and what it ran
    start_date, end_date,       \* args.start_date, args.end_date: text
    start_step,                 \* args.start_step
    main_pc,                    \* "idle", "args", "orchestrator" or "exited"
    steps_run,                  \* the step functions called so far, with their outcome
    \* parse_text_manually (archive/extract_data.py)
    lines,                      \* text.split('\n')
    line_num,                   \* lines the loop has gone through
    current_record,
    data,
    parse_pc                    \* "idle", "loop" or "done"

vars == << API_KEY, geo_file, offense_file, pc, runs, files_left,
           geocoding_cache, offense_category_cache, initial_geo_cache_size,
           initial_offense_cache_size, processed_count, failed_count, written,
           exit, loaded, sent, llm_called, llm_recalled, api_called,
           api_recalled, run_calls, cold, geo_saved, offense_saved, save_failed,
           current_step, exit_code,
           processed_dir, web_pc, csv_files, combined_df, deduped_df,
           records_removed, incidents, arg, returned,
           start_date, end_date, start_step, main_pc, steps_run,
           lines, line_num, current_record, data, parse_pc >>

step4_vars ==
    << API_KEY, geo_file, offense_file, pc, runs, files_left,
       geocoding_cache, offense_category_cache, initial_geo_cache_size,
       initial_offense_cache_size, processed_count, failed_count, written,
       exit, loaded, sent, llm_called, llm_recalled, api_called,
       api_recalled, run_calls, cold, geo_saved, offense_saved, save_failed,
       current_step, exit_code >>

web_vars == << processed_dir, web_pc, csv_files, combined_df, deduped_df,
               records_removed, incidents >>

analysis_vars == << arg, returned >>

orchestrator_vars == << start_date, end_date, start_step, main_pc, steps_run >>

parser_vars == << lines, line_num, current_record, data, parse_pc >>

\* no analysis function is being followed
AnalysisIdle == arg = <<>> /\ returned = <<>>

\* the command line is not followed
OrchestratorIdle ==
    /\ start_date = <<>>
    /\ end_date = <<>>
    /\ start_step = 1
    /\ main_pc = "idle"
    /\ steps_run = <<>>

\* no text is being parsed
ParserIdle ==
    /\ lines = <<>>
    /\ line_num = 0
    /\ current_record = EmptyDict
    /\ data = <<>>
    /\ parse_pc = "idle"

\* the state of a process that has not started run_processing
Fresh ==
    /\ pc = "idle"
    /\ files_left = 0
    /\ geocoding_cache = EmptyDict
    /\ offense_category_cache = EmptyDict
    /\ initial_geo_cache_size = 0
    /\ initial_offense_cache_size = 0
    /\ processed_count = 0
    /\ failed_count = 0
    /\ written = <<>>
    /\ exit = "none"
    /\ loaded = [geo |-> EmptyDict, offense |-> EmptyDict]
    /\ sent = <<>>
    /\ run_calls = [llm |-> {}, api |-> {}]
    /\ cold = FALSE
    /\ geo_saved = "pending" /\ offense_saved = "pending"

NoHistory ==
    /\ runs = 0
    /\ llm_called = {} /\ llm_recalled = {}
    /\ api_called = {} /\ api_recalled = {}
    /\ save_failed = [geo |-> FALSE, offense |-> FALSE]

\* step 5 has not run and finds no processed file
WebIdle ==
    /\ processed_dir = <<>>
    /\ web_pc = "ready"
    /\ csv_files = <<>>
    /\ combined_df = <<>>
    /\ deduped_df = <<>>
    /\ records_removed = 0
    /\ incidents = <<>>

Init ==
    /\ API_KEY \in {"", "key"}
    /\ geo_file \in InitialGeoFiles
    /\ offense_file \in InitialOffenseFiles
    /\ Fresh
    /\ NoHistory
    /\ current_step = 4
    /\ exit_code = "none"
    /\ WebIdle
    /\ AnalysisIdle
    /\ OrchestratorIdle
    /\ ParserIdle

\* the check skipped
MissingKeyIgnored(api_key) == FALSE

\* "if not API_KEY": the variable is unset or empty
MissingKey(api_key) == api_key = ""

\* run_processing up to the cache loads: the key check, the Bedrock client,
\* glob of INPUT_DIR, load_json_cache of both files.
StartRun ==
    /\ pc = "idle"
    /\ current_step = 4
    /\ runs < MaxRuns
    /\ runs' = runs + 1
    /\ \E bedrock_ok \in BOOLEAN, n \in 0..MaxFiles :
        IF MissingKey(API_KEY) \/ ~bedrock_ok \/ n = 0
        THEN /\ exit' = IF MissingKey(API_KEY) THEN "EnvironmentError"
                        ELSE IF ~bedrock_ok THEN "ConnectionError" ELSE "ok"
             /\ pc' = "done"
             /\ UNCHANGED << files_left, geocoding_cache, offense_category_cache,
                             initial_geo_cache_size, initial_offense_cache_size,
                             loaded >>
        ELSE LET g == JsonLoadGeo(load_json_cache(geo_file))
                 o == load_json_cache(offense_file)
             IN  /\ pc' = "loop"
                 /\ files_left' = n
                 /\ geocoding_cache' = g
                 /\ offense_category_cache' = o
                 /\ initial_geo_cache_size' = Cardinality(DOMAIN g)
                 /\ initial_offense_cache_size' = Cardinality(DOMAIN o)
                 /\ loaded' = [geo |-> g, offense |-> o]
                 /\ exit' = "running"
    /\ UNCHANGED << API_KEY, geo_file, offense_file, processed_count, failed_count,
                    written, sent, llm_called, llm_recalled, api_called, api_recalled,
                    run_calls, cold, geo_saved, offense_saved, save_failed,
                    current_step, exit_code >>
    /\ UNCHANGED web_vars
    /\ UNCHANGED analysis_vars
    /\ UNCHANGED orchestrator_vars
    /\ UNCHANGED parser_vars

\* the non-empty stripped offense strings and the queries of a file
OffensesIn(file) ==
    {OffenseText(file.rows[i]) : i \in 1..Len(file.rows)} \ {""}
QueriesIn(file) ==
    {FullQuery(file.rows[i].location) :
        i \in {j \in 1..Len(file.rows) : Strip(file.rows[j].location) # <<>>}}

\* one iteration of "for csv_file in csv_files": the whole of process_csv
ProcessCsv ==
    LET
        \* the classifier is only asked when the file holds an uncached offense
        RepliesFor(file, cache) ==
            IF OffensesIn(file) \subseteq DOMAIN cache
            THEN {LlmReply("exception", EmptyDict)} ELSE LlmReplies
        \* What process_csv raises when a cache is the list [] instead of a dict
        \* (the cache files are not written before the end of the run, so the
        \* in-memory cache is a list exactly when its file holds one):
        \* list.update does not exist and Series.map(list) calls the list, so a
        \* table with a row raises once the classifier has answered; a list does
        \* not take geocoding_cache[full_query] = api_result, so the first search
        \* raises.  Nothing in process_csv or run_processing catches either.
        Raises(file, r) ==
            IF file.kind # "table" THEN "no"
            ELSE IF LoadsList(offense_file) /\ Len(file.rows) > 0
                 THEN IF r.llm_sent # <<>> THEN "AttributeError" ELSE "TypeError"
            ELSE IF LoadsList(geo_file) /\ r.api_calls # <<>> THEN "TypeError in geocoding"
            ELSE "no"
    IN
    /\ pc = "loop"
    /\ files_left > 0
    /\ \E file \in CsvFiles :
       \E response \in RepliesFor(file, offense_category_cache),
          outcomes \in [QueriesIn(file) \ DOMAIN geocoding_cache -> ApiOutcomes] :
       \E r \in {process_csv(file, API_KEY, geocoding_cache, offense_category_cache,
                             response, outcomes)} :
       \E raised \in {Raises(file, r)} :
       \E api_calls \in {IF raised = "no" THEN r.api_calls
                         ELSE IF raised = "TypeError in geocoding"
                         THEN <<Head(r.api_calls)>> ELSE <<>>} :
            /\ geocoding_cache' = IF raised = "no" THEN r.geocoding_cache
                                  ELSE geocoding_cache
            /\ offense_category_cache' =
                  IF raised \in {"no", "TypeError in geocoding"}
                  THEN r.offense_category_cache ELSE offense_category_cache
            /\ written' = IF raised = "no" /\ r.wrote THEN r.rows ELSE written
            /\ processed_count' = IF raised = "no" /\ r.success
                                  THEN processed_count + 1 ELSE processed_count
            /\ failed_count' = IF raised = "no" /\ ~r.success
                               THEN failed_count + 1 ELSE failed_count
            /\ sent' = r.llm_sent
            /\ llm_recalled' = llm_recalled \cup (Range(r.llm_sent) \cap llm_called)
            /\ llm_called' = llm_called \cup Range(r.llm_sent)
            /\ api_recalled' = api_recalled \cup (Range(api_calls) \cap api_called)
            /\ api_called' = api_called \cup Range(api_calls)
            /\ run_calls' = [llm |-> run_calls.llm \cup Range(r.llm_sent),
                             api |-> run_calls.api \cup Range(api_calls)]
            /\ cold' = (cold \/ (file.kind = "table"
                                 /\ ~(/\ OffensesIn(file) \subseteq DOMAIN loaded.offense
                                      /\ QueriesIn(file) \subseteq DOMAIN loaded.geo)))
            /\ pc' = IF raised = "no" THEN pc ELSE "done"
            /\ exit' = IF raised = "no" THEN exit
                       ELSE IF raised = "AttributeError" THEN "AttributeError"
                       ELSE "TypeError"
    /\ files_left' = files_left - 1
    /\ UNCHANGED << API_KEY, geo_file, offense_file, runs, initial_geo_cache_size,
                    initial_offense_cache_size, loaded, geo_saved, offense_saved,
                    save_failed, current_step, exit_code >>
    /\ UNCHANGED web_vars
    /\ UNCHANGED analysis_vars
    /\ UNCHANGED orchestrator_vars
    /\ UNCHANGED parser_vars

\* a save that writes only when the file does not exist yet
save_json_cache_once(content, file, writable) ==
    IF writable /\ file.state = "missing" THEN JsonFile(content) ELSE file

\* save_json_cache: the file is overwritten, or IOError is logged
save_json_cache(content, file, writable) == IF writable THEN JsonFile(content) ELSE file

\* "if len(cache) > initial_size": the cache is saved when it grew
ShouldSave(cache, initial_size) == Cardinality(DOMAIN cache) > initial_size

SaveStatus(should_save, writable) ==
    IF ~should_save THEN "skipped" ELSE IF writable THEN "saved" ELSE "failed"

\* run_processing after the loop: the two conditional saves, the summary,
\* RuntimeError when a file failed.  Both cache files live in data/, which
\* is writable or not.
FinishRun ==
    /\ pc = "loop"
    /\ files_left = 0
    /\ \E writable \in BOOLEAN :
        LET save_geo == ShouldSave(geocoding_cache, initial_geo_cache_size)
            save_off == ShouldSave(offense_category_cache, initial_offense_cache_size)
        IN  /\ geo_file' = IF save_geo
                           THEN save_json_cache(JsonDumpGeo(geocoding_cache), geo_file, writable)
                           ELSE geo_file
            /\ offense_file' = IF save_off
                               THEN save_json_cache(offense_category_cache, offense_file, writable)
                               ELSE offense_file
            /\ geo_saved' = SaveStatus(save_geo, writable)
            /\ offense_saved' = SaveStatus(save_off, writable)
            /\ save_failed' = [geo |-> save_failed.geo \/ (save_geo /\ ~writable),
                               offense |-> save_failed.offense \/ (save_off /\ ~writable)]
    /\ exit' = IF failed_count > 0 THEN "RuntimeError" ELSE "ok"
    /\ pc' = "done"
    /\ UNCHANGED << API_KEY, runs, files_left, geocoding_cache, offense_category_cache,
                    initial_geo_cache_size, initial_offense_cache_size, processed_count,
                    failed_count, written, loaded, sent, llm_called, llm_recalled,
                    api_called, api_recalled, run_calls, cold, current_step,
                    exit_code >>
    /\ UNCHANGED web_vars
    /\ UNCHANGED analysis_vars
    /\ UNCHANGED orchestrator_vars
    /\ UNCHANGED parser_vars

\* main_orchestrator after process_csvs_main(): "Step 4 Completed
\* Successfully" and on to step 5, or the except clause and sys.exit(1)
Step4Completed ==
    /\ pc = "done"
    /\ current_step = 4
    /\ exit_code = "none"
    /\ exit = "ok"
    /\ current_step' = 5
    /\ UNCHANGED << API_KEY, geo_file, offense_file, pc, runs, files_left,
                    geocoding_cache, offense_category_cache, initial_geo_cache_size,
                    initial_offense_cache_size, processed_count, failed_count,
                    written, exit, loaded, sent, llm_called, llm_recalled,
                    api_called, api_recalled, run_calls, cold, geo_saved,
                    offense_saved, save_failed, exit_code >>
    /\ UNCHANGED web_vars
    /\ UNCHANGED analysis_vars
    /\ UNCHANGED orchestrator_vars
    /\ UNCHANGED parser_vars

Step4Failed ==
    /\ pc = "done"
    /\ current_step = 4
    /\ exit_code = "none"
    /\ exit # "ok"
    /\ exit_code' = "1"
    /\ UNCHANGED << API_KEY, geo_file, offense_file, pc, runs, files_left,
                    geocoding_cache, offense_category_cache, initial_geo_cache_size,
                    initial_offense_cache_size, processed_count, failed_count,
                    written, exit, loaded, sent, llm_called, llm_recalled,
                    api_called, api_recalled, run_calls, cold, geo_saved,
                    offense_saved, save_failed, current_step >>
    /\ UNCHANGED web_vars
    /\ UNCHANGED analysis_vars
    /\ UNCHANGED orchestrator_vars
    /\ UNCHANGED parser_vars

\* the process ends, by sys.exit(1) or past step 4 (step 5 is followed in
\* SpecWeb): only the files on disk outlive it
ProcessExit ==
    /\ pc = "done"
    /\ exit_code = "1" \/ current_step = 5
    /\ pc' = "idle"
    /\ current_step' = 4
    /\ exit_code' = "none"
    /\ files_left' = 0
    /\ geocoding_cache' = EmptyDict
    /\ offense_category_cache' = EmptyDict
    /\ initial_geo_cache_size' = 0
    /\ initial_offense_cache_size' = 0
    /\ processed_count' = 0
    /\ failed_count' = 0
    /\ written' = <<>>
    /\ exit' = "none"
    /\ loaded' = [geo |-> EmptyDict, offense |-> EmptyDict]
    /\ sent' = <<>>
    /\ run_calls' = [llm |-> {}, api |-> {}]
    /\ cold' = FALSE
    /\ geo_saved' = "pending"
    /\ offense_saved' = "pending"
    /\ UNCHANGED << API_KEY, geo_file, offense_file, runs, llm_called, llm_recalled,
                    api_called, api_recalled, save_failed >>
    /\ UNCHANGED web_vars
    /\ UNCHANGED analysis_vars
    /\ UNCHANGED orchestrator_vars
    /\ UNCHANGED parser_vars

\* ---------------------------------------------------------------- step 5
MaxWebFiles == 2   \* *_processed.csv files in data/processed_csv_files
MaxWebRows  == 2   \* rows of one processed CSV file

\* The date part of the processed files' names, in lexicographic order; the
\* file is "<date>-police-report-log_processed.csv".
WebNames == << "april-07-2025", "april-08-2025", "april-09-2025", "april-10-2025" >>

Rank(name) == CHOOSE i \in 1..Len(WebNames) : WebNames[i] = name

\* the directories step 5 can find: files 1..n carry the names WebNames[1..n]
ProcessedDirs ==
    LET
        \* rows of a processed CSV: an incident, a row without case number, the same
        \* case number on another date without coordinates, and that incident again
        \* as a file geocoded later holds it
        WebRows ==
            { [case_number |-> <<"25-01409">>, date |-> <<"4/10/2025">>,
               time |-> <<"2", "3", "5", "9">>, latitude |-> <<"37.4419">>],
              [case_number |-> NaN,            date |-> <<"4/10/2025">>,
               time |-> NaN, latitude |-> <<"37.4419">>],
              [case_number |-> <<"25-01409">>, date |-> <<"4/11/2025">>,
               time |-> <<"2", "4", "0", "0">>, latitude |-> NaN],
              [case_number |-> <<"25-01409">>, date |-> <<"4/11/2025">>,
               time |-> <<"2", "4", "0", "0">>, latitude |-> <<"37.4270">>] }
        WebTables == UNION {[1..n -> WebRows] : n \in 0..MaxWebRows}
        WebFiles ==
            {CsvFile("table", t) : t \in WebTables}
            \cup {CsvFile(k, <<>>) : k \in {"unreadable", "empty"}}
    IN
    UNION {[1..n -> WebFiles] : n \in 0..MaxWebFiles}

\* the loop over csv_files: read_csv, the two police_record_date columns,
\* append; a file that cannot be read is logged and left out
RECURSIVE ReadAll(_, _)
ReadAll(names, dir) ==
    IF names = <<>> THEN <<>>
    ELSE LET f == dir[Rank(Head(names))]
             df == [i \in 1..Len(f.rows) |->
                      [ case_number |-> f.rows[i].case_number,
                        date |-> f.rows[i].date,
                        time |-> f.rows[i].time,
                        latitude |-> f.rows[i].latitude,
                        police_record_date_str |-> Head(names) ]]
         IN  (IF f.kind = "table" THEN <<df>> ELSE <<>>) \o ReadAll(Tail(names), dir)

RECURSIVE Flatten(_)
Flatten(frames) ==
    IF frames = <<>> THEN <<>> ELSE Head(frames) \o Flatten(Tail(frames))

\* pd.concat(all_data_frames, ignore_index=True): rows relabelled 1..n
Concat(frames) ==
    LET rows == Flatten(frames)
    IN  [i \in 1..Len(rows) |->
            [ index |-> i,
              case_number |-> rows[i].case_number,
              date |-> rows[i].date,
              time |-> rows[i].time,
              latitude |-> rows[i].latitude,
              police_record_date_str |-> rows[i].police_record_date_str ]]

\* deduplication_columns = ['case_number', 'date']
DedupKey(row) == << row.case_number, row.date >>

RECURSIVE DropDuplicatesLastFrom(_, _)
DropDuplicatesLastFrom(rows, seen) ==
    IF rows = <<>> THEN <<>>
    ELSE LET last == rows[Len(rows)]
             front == SubSeq(rows, 1, Len(rows) - 1)
         IN  IF DedupKey(last) \in seen
             THEN DropDuplicatesLastFrom(front, seen)
             ELSE Append(DropDuplicatesLastFrom(front, seen \cup {DedupKey(last)}), last)

\* drop_duplicates with keep='last' in place of keep='first'
DropDuplicatesKeepLast(rows) == DropDuplicatesLastFrom(rows, {})

RECURSIVE DropOneDuplicateFrom(_, _)
\* a pass that stops after the first duplicate it drops
DropOneDuplicateFrom(rows, seen) ==
    IF rows = <<>> THEN <<>>
    ELSE IF DedupKey(Head(rows)) \in seen
         THEN Tail(rows)
         ELSE <<Head(rows)>> \o
              DropOneDuplicateFrom(Tail(rows), seen \cup {DedupKey(Head(rows))})

RECURSIVE DropDuplicatesFrom(_, _)
DropDuplicatesFrom(rows, seen) ==
    IF rows = <<>> THEN <<>>
    ELSE IF DedupKey(Head(rows)) \in seen
         THEN DropDuplicatesFrom(Tail(rows), seen)
         ELSE <<Head(rows)>> \o
              DropDuplicatesFrom(Tail(rows), seen \cup {DedupKey(Head(rows))})

\* combined_df.drop_duplicates(subset=['case_number','date'], keep='first'):
\* pandas compares the key columns with missing values equal to each other,
\* and the rows kept retain their index labels
DropDuplicates(rows) == DropDuplicatesFrom(rows, {})

RECURSIVE DropNaLatitude(_)
\* dropna(subset=['latitude','longitude']) around pd.to_numeric(errors='coerce')
DropNaLatitude(rows) ==
    IF rows = <<>> THEN <<>>
    ELSE IF Head(rows).latitude = NaN THEN DropNaLatitude(Tail(rows))
         ELSE <<Head(rows)>> \o DropNaLatitude(Tail(rows))

\* ------------------------------------------ step 5: time_to_minutes
MaxTimeLen == 5   \* characters of a time cell

\* str(time_val)
StrOf(time_val) == IF time_val.type = "str" THEN time_val.value ELSE <<"n", "a", "n">>

RECURSIVE BeforeDot(_)
\* s.split('.')[0]
BeforeDot(chars) ==
    IF chars = <<>> \/ Head(chars) = "." THEN <<>>
    ELSE <<Head(chars)>> \o BeforeDot(Tail(chars))

\* str.isdigit()
IsDigits(chars) == chars # <<>> /\ \A i \in 1..Len(chars) : IsDigit(chars[i])

\* the conversion without its range test
time_to_minutes_unchecked(time_val) ==
    LET time_str == BeforeDot(StrOf(time_val))
    IN  IF time_str \in {<<>>, <<"n", "a", "n">>, <<"N", "a", "T">>} THEN <<>>
        ELSE IF Len(time_str) # 4 \/ ~IsDigits(time_str) THEN <<>>
        ELSE <<int(SubSeq(time_str, 1, 2)) * 60 + int(SubSeq(time_str, 3, 4))>>

\* time_to_minutes: <<>> is pd.NA, <<n>> the integer n
time_to_minutes(time_val) ==
    LET time_str == BeforeDot(StrOf(time_val))
    IN  IF time_str \in {<<>>, <<"n", "a", "n">>, <<"N", "a", "T">>} THEN <<>>
        ELSE IF Len(time_str) # 4 \/ ~IsDigits(time_str) THEN <<>>
        ELSE LET hours == int(SubSeq(time_str, 1, 2))
                 minutes == int(SubSeq(time_str, 3, 4))
             IN  IF 0 <= hours /\ hours <= 23 /\ 0 <= minutes /\ minutes <= 59
                 THEN <<hours * 60 + minutes>>
                 ELSE <<>>

\* one cell through .apply(time_to_minutes), .fillna(0), .astype(int)
TimeColumn(time_val) ==
    LET minutes == time_to_minutes(time_val)
    IN  IF minutes = <<>> THEN 0 ELSE minutes[1]

\* the records of incidents.json: the time in minutes, case_number.fillna('')
\* and the kept columns
OutputData(rows) ==
    LET
        \* a cell of a column read with dtype=str: the text, or float nan when empty
        CellValue(cell) == IF cell = NaN THEN FloatNaN ELSE Str(cell)
    IN
    [i \in 1..Len(rows) |->
        [ case_number |-> Join(rows[i].case_number),
          date |-> Join(rows[i].date),
          time |-> TimeColumn(CellValue(rows[i].time)),
          latitude |-> Join(rows[i].latitude),
          police_record_date_str |-> rows[i].police_record_date_str ]]

\* prepare_data_for_website: glob lists the directory in some order
PrepareData ==
    LET
        \* the orders in which glob.glob can list n files
        Listings(n) == {p \in [1..n -> 1..n] : \A i, j \in 1..n : p[i] = p[j] => i = j}
    IN
    /\ current_step = 5
    /\ web_pc = "ready"
    /\ \E listing \in Listings(Len(processed_dir)) :
        LET names == [i \in 1..Len(processed_dir) |-> WebNames[listing[i]]]
            all_data_frames == ReadAll(names, processed_dir)
        IN  /\ csv_files' = names
            /\ IF all_data_frames = <<>>
               THEN UNCHANGED << combined_df, deduped_df, records_removed, incidents >>
               ELSE \E combined \in {Concat(all_data_frames)} :
                    \E deduped \in {DropDuplicates(combined)} :
                       /\ combined_df' = combined
                       /\ deduped_df' = deduped
                       /\ records_removed' = Len(combined) - Len(deduped)
                       /\ incidents' = OutputData(DropNaLatitude(deduped))
    /\ web_pc' = "done"
    /\ UNCHANGED processed_dir
    /\ UNCHANGED step4_vars
    /\ UNCHANGED analysis_vars
    /\ UNCHANGED orchestrator_vars
    /\ UNCHANGED parser_vars

Next ==
    StartRun \/ ProcessCsv \/ FinishRun \/ Step4Completed \/ Step4Failed \/ ProcessExit

Spec == Init /\ [][Next]_vars

\* step 5 alone, over every directory of processed files
WebInit ==
    /\ API_KEY = "key"
    /\ geo_file = MissingFile
    /\ offense_file = MissingFile
    /\ Fresh
    /\ NoHistory
    /\ current_step = 5
    /\ exit_code = "none"
    /\ processed_dir \in ProcessedDirs
    /\ web_pc = "ready"
    /\ csv_files = <<>>
    /\ combined_df = <<>>
    /\ deduped_df = <<>>
    /\ records_removed = 0
    /\ incidents = <<>>
    /\ AnalysisIdle
    /\ OrchestratorIdle
    /\ ParserIdle

WebNext == PrepareData

SpecWeb == WebInit /\ [][WebNext]_vars

\* ----------------------------------- analysis: categorize_offense
MaxPieces == 3   \* pieces of an offense text

\* The state of the pipeline while an analysis function is followed.
PipelineIdle ==
    /\ API_KEY = "key"
    /\ geo_file = MissingFile
    /\ offense_file = MissingFile
    /\ Fresh
    /\ NoHistory
    /\ current_step = 4
    /\ exit_code = "none"
    /\ WebIdle
    /\ OrchestratorIdle

lower(pieces) ==
    LET
        \* str.lower() on the pieces that are not lower case already
        LowerPairs ==
            << <<"THEFT", "theft">>, <<"Theft", "theft">>, <<"VEHICLE", "vehicle">>,
               <<"DUI", "dui">>, <<"FRAUD", "fraud">>, <<"WARRANT", "warrant">>,
               <<"G", "g">>, <<"RAPE", "rape">>, <<"LOITERING", "loitering">>,
               <<"VANDALISM", "vandalism">>, <<"NOISE", "noise">>,
               <<"BLOCK", "block">>, <<"ALMA", "alma">>, <<"Alma", "alma">>,
               <<"ST", "st">>, <<"Dr", "dr">>, <<"PARK", "park">>, <<"BLVD", "blvd">>,
               <<"MAIN", "main">>, <<"EL", "el">>, <<"CAMINO", "camino">>,
               <<"CASE", "case">>, <<"Case", "case">>, <<"DATE", "date">>,
               <<"Date", "date">>, <<"LOCATION", "location">> >>
        LowerPiece(piece) ==
            IF \E i \in 1..Len(LowerPairs) : LowerPairs[i][1] = piece
            THEN LowerPairs[CHOOSE i \in 1..Len(LowerPairs) : LowerPairs[i][1] = piece][2]
            ELSE piece
    IN
    [i \in 1..Len(pieces) |-> LowerPiece(pieces[i])]

\* "keyword in text": the keyword's pieces occur in a row.  The pieces of
\* the texts below are cut so that a keyword never ends inside a piece.
Contains(text, keyword) ==
    \E i \in 1..(Len(text) - Len(keyword) + 1) :
        SubSeq(text, i, i + Len(keyword) - 1) = keyword

\* the dict in another insertion order: sorted by category name
categories_sorted ==
    << [ category |-> "Assault",
         keywords |-> << <<"assault">>, <<"battery">>, <<"fight">>, <<"violence">>,
                         <<"domestic">>, <<"rape">> >> ],
       [ category |-> "Drugs/Alcohol",
         keywords |-> << <<"drug">>, <<"narcotic">>, <<"alcohol">>, <<"intoxication">>,
                         <<"controlled", " ", "substance">> >> ],
       [ category |-> "Fraud",
         keywords |-> << <<"fraud">>, <<"scam">>, <<"identity", " ", "theft">>,
                         <<"forgery">>, <<"credit">>, <<"unauth">> >> ],
       [ category |-> "Mental Health",
         keywords |-> << <<"mental">>, <<"welfare">>, <<"crisis">>, <<"evaluation">> >> ],
       [ category |-> "Noise/Disturbance",
         keywords |-> << <<"noise">>, <<"disturbance">>, <<"loud">>, <<"party">>,
                         <<"nuisance">> >> ],
       [ category |-> "Property Damage",
         keywords |-> << <<"vandalism">>, <<"damage">>, <<"graffiti">>, <<"deface">> >> ],
       [ category |-> "Theft",
         keywords |-> << <<"theft">>, <<"burglary">>, <<"robbery">>, <<"shoplifting">>,
                         <<"stolen">>, <<"larceny">>, <<"vehicle", " ", "theft">> >> ],
       [ category |-> "Traffic",
         keywords |-> << <<"traffic">>, <<"vehicle">>, <<"driving">>, <<"dui">>,
                         <<"parking">>, <<"hit", " ", "and", " ", "run">>,
                         <<"accident">> >> ],
       [ category |-> "Warrant",
         keywords |-> << <<"warrant">>, <<"failure", " ", "to", " ", "appear">> >> ] >>

\* the categories dict of categorize_offense, in insertion order
categories ==
    << [ category |-> "Theft",
         keywords |-> << <<"theft">>, <<"burglary">>, <<"robbery">>, <<"shoplifting">>,
                         <<"stolen">>, <<"larceny">>, <<"vehicle", " ", "theft">> >> ],
       [ category |-> "Traffic",
         keywords |-> << <<"traffic">>, <<"vehicle">>, <<"driving">>, <<"dui">>,
                         <<"parking">>, <<"hit", " ", "and", " ", "run">>,
                         <<"accident">> >> ],
       [ category |-> "Assault",
         keywords |-> << <<"assault">>, <<"battery">>, <<"fight">>, <<"violence">>,
                         <<"domestic">>, <<"rape">> >> ],
       [ category |-> "Property Damage",
         keywords |-> << <<"vandalism">>, <<"damage">>, <<"graffiti">>, <<"deface">> >> ],
       [ category |-> "Drugs/Alcohol",
         keywords |-> << <<"drug">>, <<"narcotic">>, <<"alcohol">>, <<"intoxication">>,
                         <<"controlled", " ", "substance">> >> ],
       [ category |-> "Mental Health",
         keywords |-> << <<"mental">>, <<"welfare">>, <<"crisis">>, <<"evaluation">> >> ],
       [ category |-> "Noise/Disturbance",
         keywords |-> << <<"noise">>, <<"disturbance">>, <<"loud">>, <<"party">>,
                         <<"nuisance">> >> ],
       [ category |-> "Fraud",
         keywords |-> << <<"fraud">>, <<"scam">>, <<"identity", " ", "theft">>,
                         <<"forgery">>, <<"credit">>, <<"unauth">> >> ],
       [ category |-> "Warrant",
         keywords |-> << <<"warrant">>, <<"failure", " ", "to", " ", "appear">> >> ] >>

\* any(keyword in offense_lower for keyword in keywords)
AnyKeyword(keywords, offense_lower) ==
    \E k \in 1..Len(keywords) : Contains(offense_lower, keywords[k])

\* "for category, keywords in categories.items()" and the return after it
RECURSIVE FirstCategory(_, _)
FirstCategory(items, offense_lower) ==
    IF items = <<>> THEN "Other"
    ELSE IF AnyKeyword(Head(items).keywords, offense_lower)
         THEN Head(items).category
         ELSE FirstCategory(Tail(items), offense_lower)

\* the function without its first test
categorize_offense_unguarded(offense_type) ==
    FirstCategory(categories, lower(offense_type.value))

categorize_offense(offense_type) ==
    IF offense_type.value = <<>> \/ offense_type.type # "str"
    THEN "Unknown"
    ELSE FirstCategory(categories, lower(offense_type.value))

OffenseArgs ==
    LET
        \* the pieces offense texts are spelled with
        OffensePieces ==
            { "THEFT", "Theft", "VEHICLE", "DUI", "FRAUD", "WARRANT", "G", "RAPE",
              "LOITERING", "identity", "NOISE", " " }
        OffenseTexts == UNION {[1..n -> OffensePieces] : n \in 0..MaxPieces}
    IN
    {Str(t) : t \in OffenseTexts} \cup {None, FloatNaN}

InitCategorize ==
    /\ PipelineIdle
    /\ ParserIdle
    /\ arg \in OffenseArgs
    /\ returned = <<>>

\* clean_data: df['offense_type'].apply(categorize_offense), one cell
CategorizeOffense ==
    /\ returned = <<>>
    /\ returned' = <<categorize_offense(arg)>>
    /\ UNCHANGED arg
    /\ UNCHANGED step4_vars
    /\ UNCHANGED web_vars
    /\ UNCHANGED orchestrator_vars
    /\ UNCHANGED parser_vars

SpecCategorize == InitCategorize /\ [][CategorizeOffense]_vars

\* ---------------------------------- analysis: extract_street_name
MaxWords == 4   \* words of a location text

isdigit(word)   == word \in {"700"}
IsLetters(word) == word \notin {"700", "&"}      \* [A-Za-z]+ over the whole word

\* what (St|Ave|Blvd|Rd|Way|Dr|Ln|Ct|Pl|Cir) matches at the start of the
\* word under re.IGNORECASE, "" when it does not match there
TypeMatched(word) == IF word \in {"ST", "Dr", "BLVD"} THEN word ELSE ""

\* the streets list: each name with its lower-case words
streets ==
    << [name |-> "Alma", words |-> <<"alma">>],
       [name |-> "University", words |-> <<"university">>],
       [name |-> "Hamilton", words |-> <<"hamilton">>],
       [name |-> "Waverley", words |-> <<"waverley">>],
       [name |-> "Bryant", words |-> <<"bryant">>],
       [name |-> "Emerson", words |-> <<"emerson">>],
       [name |-> "Ramona", words |-> <<"ramona">>],
       [name |-> "High", words |-> <<"high">>],
       [name |-> "Cowper", words |-> <<"cowper">>],
       [name |-> "Webster", words |-> <<"webster">>],
       [name |-> "Middlefield", words |-> <<"middlefield">>],
       [name |-> "El Camino", words |-> <<"el", "camino">>],
       [name |-> "Page Mill", words |-> <<"page", "mill">>],
       [name |-> "Oregon", words |-> <<"oregon">>],
       [name |-> "Charleston", words |-> <<"charleston">>],
       [name |-> "Arastradero", words |-> <<"arastradero">>],
       [name |-> "San Antonio", words |-> <<"san", "antonio">>],
       [name |-> "Embarcadero", words |-> <<"embarcadero">>],
       [name |-> "California", words |-> <<"california">>],
       [name |-> "Cambridge", words |-> <<"cambridge">>],
       [name |-> "Addison", words |-> <<"addison">>],
       [name |-> "Channing", words |-> <<"channing">>],
       [name |-> "Homer", words |-> <<"homer">>],
       [name |-> "Lytton", words |-> <<"lytton">>],
       [name |-> "Everett", words |-> <<"everett">>],
       [name |-> "Park", words |-> <<"park">>],
       [name |-> "Forest", words |-> <<"forest">>],
       [name |-> "Hanover", words |-> <<"hanover">>] >>

\* re.search(r'\b' + street + r'\b', location, re.IGNORECASE): the words of
\* the name occur in a row as whole words
StreetFound(street, location) == Contains(lower(location), street.words)

\* "for street in streets: if re.search(...): return street"; "" when the
\* loop ends without a match
RECURSIVE KnownStreet(_, _)
KnownStreet(list, location) ==
    IF list = <<>> THEN ""
    ELSE IF StreetFound(Head(list), location) THEN Head(list).name
         ELSE KnownStreet(Tail(list), location)

FirstIndex(S) == CHOOSE i \in S : \A j \in S : i <= j

\* "for pattern in patterns": the first pattern that matches decides; ""
\* when none matches
ByPattern(location) ==
    LET
        IsWordChars(word) == word # "&"                  \* \w+ over the whole word
        \* the list in the suffix tests
        StreetTypes == {"St", "Ave", "Blvd", "Rd", "Way", "Dr", "Ln", "Ct", "Pl", "Cir"}
        \* (\d+)\s+([A-Za-z]+)\s+(St|Ave|...): leftmost number, word, street type
        NumberedAt(words) ==
            {i \in 1..(Len(words) - 2) :
                /\ isdigit(words[i])
                /\ IsLetters(words[i + 1])
                /\ TypeMatched(words[i + 2]) # ""}
        \* ([A-Za-z]+)\s+(St|Ave|...)
        TypedAt(words) ==
            {i \in 1..(Len(words) - 1) :
                IsLetters(words[i]) /\ TypeMatched(words[i + 1]) # ""}
        \* (\w+)\s*(?:&|/|and)\s*(\w+)
        IntersectionAt(words) ==
            {i \in 1..(Len(words) - 2) :
                /\ IsWordChars(words[i])
                /\ words[i + 1] = "&"
                /\ IsWordChars(words[i + 2])}
        \* the branch taken for a match with two groups
        TwoGroups(first, second) ==
            IF second \in StreetTypes THEN first ELSE first \o "/" \o second
    IN
    IF NumberedAt(location) # {}
    THEN location[FirstIndex(NumberedAt(location)) + 1]
    ELSE IF TypedAt(location) # {}
    THEN LET i == FirstIndex(TypedAt(location))
         IN  TwoGroups(location[i], TypeMatched(location[i + 1]))
    ELSE IF IntersectionAt(location) # {}
    THEN LET i == FirstIndex(IntersectionAt(location))
         IN  TwoGroups(location[i], location[i + 2])
    ELSE ""

RECURSIVE JoinWords(_)
\* the location string itself
JoinWords(words) ==
    IF words = <<>> THEN ""
    ELSE IF Len(words) = 1 THEN Head(words)
    ELSE Head(words) \o " " \o JoinWords(Tail(words))

\* parts = location.split() and the loop over the parts
FirstPart(location) ==
    LET
        LongerThanTwo(word) == word \notin {"ST", "Dr", "EL", "&"}
    IN
    LET usable == {i \in 1..Len(location) :
                      ~isdigit(location[i]) /\ LongerThanTwo(location[i])}
    IN  IF Len(location) > 1 /\ usable # {}
        THEN location[FirstIndex(usable)]
        ELSE JoinWords(location)

\* the patterns tried before the streets list
extract_street_name_patterns_first(location) ==
    IF location.value = <<>> \/ location.type # "str" THEN "None"
    ELSE IF ByPattern(location.value) # "" THEN ByPattern(location.value)
    ELSE IF KnownStreet(streets, location.value) # ""
    THEN KnownStreet(streets, location.value)
    ELSE FirstPart(location.value)

\* extract_street_name; the string "None" stands for Python's None
extract_street_name(location) ==
    IF location.value = <<>> \/ location.type # "str" THEN "None"
    ELSE IF KnownStreet(streets, location.value) # ""
    THEN KnownStreet(streets, location.value)
    ELSE IF ByPattern(location.value) # "" THEN ByPattern(location.value)
    ELSE FirstPart(location.value)

LocationArgs ==
    LET
        \* A location is spelled as words separated by single blanks; "&" stands
        \* alone as a word.  What the regular expressions and str methods see of a
        \* word:
        LocationWords ==
            { "700", "BLOCK", "ALMA", "Alma", "ST", "Dr", "PARK", "BLVD", "&", "MAIN",
              "EL", "CAMINO" }
        LocationTexts == UNION {[1..n -> LocationWords] : n \in 0..MaxWords}
    IN
    {Str(t) : t \in LocationTexts} \cup {None, FloatNaN}

InitStreet ==
    /\ PipelineIdle
    /\ ParserIdle
    /\ arg \in LocationArgs
    /\ returned = <<>>

\* clean_data: df['location'].apply(extract_street_name), one cell
ExtractStreetName ==
    /\ returned = <<>>
    /\ returned' = <<extract_street_name(arg)>>
    /\ UNCHANGED arg
    /\ UNCHANGED step4_vars
    /\ UNCHANGED web_vars
    /\ UNCHANGED orchestrator_vars
    /\ UNCHANGED parser_vars

SpecStreet == InitStreet /\ [][ExtractStreetName]_vars

\* ---------------------------- analysis (analyze_data.py): categorize_time
\* re.search(r'(\d{1,2}):', s): the positions where one or two digits are
\* followed by a colon; the match is the leftmost, with two digits when the
\* second character is a digit too
HourMatches(s) ==
    {i \in 1..Len(s) :
        /\ IsDigit(s[i])
        /\ \/ (i + 1 <= Len(s) /\ s[i + 1] = ":")
           \/ (i + 2 <= Len(s) /\ IsDigit(s[i + 1]) /\ s[i + 2] = ":")}

categorize_time(time_str) ==
    LET
        HourGroup(s) ==
            LET i == FirstIndex(HourMatches(s))
            IN  IF IsDigit(s[i + 1]) THEN SubSeq(s, i, i + 1) ELSE SubSeq(s, i, i)
        \* 'PM' in s.upper() or 'P.M' in s.upper(); the texts below are upper case
        IsPm(s) == Contains(s, <<"P", "M">>) \/ Contains(s, <<"P", ".", "M">>)
        \* the four bands of the hour
        TimeBand(hour) ==
            IF hour >= 5 /\ hour < 12 THEN "Morning"
            ELSE IF hour >= 12 /\ hour < 17 THEN "Afternoon"
            ELSE IF hour >= 17 /\ hour < 22 THEN "Evening"
            ELSE "Night"
    IN
    IF time_str.type # "str" THEN "Unknown"
    ELSE IF HourMatches(time_str.value) = {} THEN "Unknown"
    ELSE LET hour == int(HourGroup(time_str.value))
         IN  TimeBand(IF IsPm(time_str.value) /\ hour < 12 THEN hour + 12 ELSE hour)

TimeArgs ==
    LET
        \* every text of four digits, and the clock texts H:30, HH:30 with and
        \* without " PM"
        FourDigits == [1..4 -> Range(Digits)]
        ClockTexts ==
            LET hours == {<<d>> : d \in Range(Digits)}
                         \cup {<<d, e>> : d \in {"0", "1", "2"}, e \in Range(Digits)}
            IN  {h \o <<":", "3", "0">> : h \in hours}
                \cup {h \o <<":", "3", "0", " ", "P", "M">> : h \in hours}
    IN
    {Str(t) : t \in FourDigits \cup ClockTexts} \cup {None, FloatNaN}

InitTime ==
    /\ PipelineIdle
    /\ ParserIdle
    /\ arg \in TimeArgs
    /\ returned = <<>>

\* clean_data: df['TIME'].apply(categorize_time), one cell
CategorizeTime ==
    /\ returned = <<>>
    /\ returned' = <<categorize_time(arg)>>
    /\ UNCHANGED arg
    /\ UNCHANGED step4_vars
    /\ UNCHANGED web_vars
    /\ UNCHANGED orchestrator_vars
    /\ UNCHANGED parser_vars

SpecTime == InitTime /\ [][CategorizeTime]_vars

\* ---------------------------------------- analysis: analyze_data
MaxIncidents == 4   \* rows of the cleaned frame

\* severity_weights, in insertion order
severity_weights ==
    << [category |-> "Assault", weight |-> 10],
       [category |-> "Theft", weight |-> 7],
       [category |-> "Property Damage", weight |-> 5],
       [category |-> "Drugs/Alcohol", weight |-> 4],
       [category |-> "Fraud", weight |-> 3],
       [category |-> "Traffic", weight |-> 2],
       [category |-> "Noise/Disturbance", weight |-> 2],
       [category |-> "Mental Health", weight |-> 1],
       [category |-> "Warrant", weight |-> 3],
       [category |-> "Other", weight |-> 2] >>

RECURSIVE SelectRows(_, _, _)
\* df[df[column] == value]
SelectRows(df, column, value) ==
    IF df = <<>> THEN <<>>
    ELSE IF Head(df)[column] = value
         THEN <<Head(df)>> \o SelectRows(Tail(df), column, value)
         ELSE SelectRows(Tail(df), column, value)

RECURSIVE WeightedScore(_, _)
\* "for category, weight in severity_weights.items():
\*      weighted_score += len(street_df[... == category]) * weight"
WeightedScore(weights, street_df) ==
    IF weights = <<>> THEN 0
    ELSE Len(SelectRows(street_df, "offense_category", Head(weights).category))
             * Head(weights).weight
         + WeightedScore(Tail(weights), street_df)

\* weighted_score / incident_count, kept as the exact quotient
Quotient(n, d) == [num |-> n, den |-> d]

\* a / b <= c / d for positive b and d
AtMost(a, b) == a.num * b.den <= b.num * a.den

\* a filter letting every street through
AtLeastOne(entry) == entry.incident_count >= 1

\* safety_df[safety_df['incident_count'] >= 2]
AtLeastTwo(entry) == entry.incident_count >= 2

\* analyze_data up to stats['safety_scores']: None for an empty frame;
\* KeyError from safety_df['incident_count'] when no row has a street, the
\* frame built from the empty dict having no column; else the tables the
\* sort can give
AnalyzeResults(df) ==
    LET
        \* df['street'].dropna().unique(); the string "None" is the missing street
        StreetNames(frame) ==
            UniqueSeq(SelectSeq([i \in 1..Len(frame) |-> frame[i].street], LAMBDA x : x # "None"), {})
        \* the entry of street_safety for one street
        StreetSafety(frame, street) ==
            LET street_df == SelectRows(frame, "street", street)
                weighted_score == WeightedScore(severity_weights, street_df)
                incident_count == Len(street_df)
            IN  [ street |-> street,
                  safety_score |-> Quotient(weighted_score, incident_count),
                  incident_count |-> incident_count,
                  weighted_score |-> weighted_score ]
        \* sort_values('safety_score'): the rows in ascending order of the score;
        \* the order of rows with equal scores is not fixed (quicksort)
        SortedBy(rows) ==
            {t \in [1..Len(rows) -> Range(rows)] :
                /\ \A r \in Range(rows) : \E i \in 1..Len(rows) : t[i] = r
                /\ \A i \in 1..(Len(rows) - 1) : AtMost(t[i].safety_score, t[i + 1].safety_score)}
    IN
    IF df = <<>> THEN {[kind |-> "None", safety_scores |-> <<>>]}
    ELSE IF StreetNames(df) = <<>> THEN {[kind |-> "KeyError", safety_scores |-> <<>>]}
    ELSE LET names == StreetNames(df)
             street_safety == [i \in 1..Len(names) |-> StreetSafety(df, names[i])]
             safety_df == SelectSeq(street_safety, AtLeastTwo)
         IN  {[kind |-> "stats", safety_scores |-> t] : t \in SortedBy(safety_df)}

IncidentFrames ==
    LET
        \* rows of the cleaned frame: street and offense_category
        IncidentRows ==
            [ street : {"Alma", "Park", "None"},
              offense_category : {"Theft", "Traffic", "Unknown"} ]
    IN
    UNION {[1..n -> IncidentRows] : n \in 0..MaxIncidents}

InitAnalyze ==
    /\ PipelineIdle
    /\ ParserIdle
    /\ arg \in IncidentFrames
    /\ returned = <<>>

AnalyzeData ==
    /\ returned = <<>>
    /\ \E stats \in AnalyzeResults(arg) : returned' = <<stats>>
    /\ UNCHANGED arg
    /\ UNCHANGED step4_vars
    /\ UNCHANGED web_vars
    /\ UNCHANGED orchestrator_vars
    /\ UNCHANGED parser_vars

SpecAnalyze == InitAnalyze /\ [][AnalyzeData]_vars

\* --------------------------- step 5: the time column, cell by cell

TimeValues ==
    LET
        TimeChars == {"0", "2", "4", "5", "6", "9", ".", "x"}
        TimeCells == UNION {[1..n -> TimeChars] : n \in 0..MaxTimeLen}
    IN
    {Str(t) : t \in TimeCells} \cup {FloatNaN}

InitMinutes ==
    /\ PipelineIdle
    /\ ParserIdle
    /\ arg \in TimeValues
    /\ returned = <<>>

\* filtered_df['time'].apply(time_to_minutes).fillna(0).astype(int), one cell
ConvertTime ==
    /\ returned = <<>>
    /\ returned' = <<TimeColumn(arg)>>
    /\ UNCHANGED arg
    /\ UNCHANGED step4_vars
    /\ UNCHANGED web_vars
    /\ UNCHANGED orchestrator_vars
    /\ UNCHANGED parser_vars

SpecMinutes == InitMinutes /\ [][ConvertTime]_vars

\* ------------------------------------------- analysis: clean_data
MaxCombined == 3   \* rows of the combined frame

CombinedFrames ==
    LET
        \* rows of the combined frame load_csv_files returns
        CombinedRows ==
            [ case_number : { <<"25-01409">>, <<"25-01410">>, NaN },
              date : { <<"4/10/2025">>, <<"4/11/2025">> },
              location : { Str(<<"ALMA", "ST">>) },
              offense_type : { Str(<<"THEFT">>), Str(<<"DUI">>) } ]
    IN
    UNION {[1..n -> CombinedRows] : n \in 0..MaxCombined}

RECURSIVE DropDuplicateCasesFrom(_, _)
DropDuplicateCasesFrom(rows, seen) ==
    IF rows = <<>> THEN <<>>
    ELSE IF Head(rows).case_number \in seen
         THEN DropDuplicateCasesFrom(Tail(rows), seen)
         ELSE <<Head(rows)>> \o
              DropDuplicateCasesFrom(Tail(rows), seen \cup {Head(rows).case_number})

to_datetime(cell) ==
    LET
        \* pd.to_datetime(..., errors='coerce') on the dates of the reports
        Timestamps ==
            << [text |-> "4/10/2025", year |-> 2025, month |-> 4, day |-> 10],
               [text |-> "4/11/2025", year |-> 2025, month |-> 4, day |-> 11] >>
    IN
    IF cell = NaN \/ ~\E i \in 1..Len(Timestamps) : Timestamps[i].text = Join(cell)
    THEN <<>>
    ELSE LET t == Timestamps[CHOOSE i \in 1..Len(Timestamps) : Timestamps[i].text = Join(cell)]
         IN  << t.year, t.month, t.day >>

\* clean_data: None (here <<>>) for an empty frame; else the duplicates
\* dropped, the dates normalised, and the street and offense_category columns
clean_data(df) ==
    LET
        \* cleaned_df.drop_duplicates(subset=['case_number']): the first row of every
        \* case number is kept, missing case numbers counting as one value
        DropDuplicateCases(rows) == DropDuplicateCasesFrom(rows, {})
    IN
    LET cleaned_df == DropDuplicateCases(df)
    IN  [i \in 1..Len(cleaned_df) |->
            [ case_number |-> cleaned_df[i].case_number,
              date |-> to_datetime(cleaned_df[i].date),
              location |-> cleaned_df[i].location,
              offense_type |-> cleaned_df[i].offense_type,
              street |-> extract_street_name(cleaned_df[i].location),
              offense_category |-> categorize_offense(cleaned_df[i].offense_type) ]]

InitClean ==
    /\ PipelineIdle
    /\ ParserIdle
    /\ arg \in CombinedFrames
    /\ returned = <<>>

\* __main__ of analyze_csv_data.py: clean_data, then analyze_data on its
\* result; nothing is analysed when clean_data returns None
CleanAndAnalyze ==
    LET
        \* df[column].value_counts().to_dict(); a missing street is not counted
        value_counts(df, column) ==
            LET values == {df[i][column] : i \in 1..Len(df)} \ {"None"}
            IN  [v \in values |-> Cardinality({i \in 1..Len(df) : df[i][column] = v})]
        \* the street and category columns analyze_data's safety table reads
        SafetyColumns(df) ==
            [i \in 1..Len(df) |->
                [street |-> df[i].street, offense_category |-> df[i].offense_category]]
    IN
    /\ returned = <<>>
    /\ \E cleaned_df \in {clean_data(arg)} :
       \E stats \in AnalyzeResults(SafetyColumns(cleaned_df)) :
          returned' = << [ cleaned_df |-> cleaned_df,
                           kind |-> stats.kind,
                           top_locations |-> value_counts(cleaned_df, "street"),
                           offense_counts |-> value_counts(cleaned_df, "offense_category"),
                           safety_scores |-> stats.safety_scores ] >>
    /\ UNCHANGED arg
    /\ UNCHANGED step4_vars
    /\ UNCHANGED web_vars
    /\ UNCHANGED orchestrator_vars
    /\ UNCHANGED parser_vars

SpecClean == InitClean /\ [][CleanAndAnalyze]_vars

\* ----------------------- archive/extract_data.py: the tables of a page
MaxTableRows == 3   \* rows of one extracted table

PageTables ==
    LET
        \* What pdfplumber hands over: a table is a list of rows, a row a list of
        \* cells, a cell a str or None.  Texts are spelled in pieces, " " being the
        \* blank.
        HeaderLikeRows ==
            { << Str(<<"CASE", " ", "#">>) >>,
              << Str(<<"Case", " ", "#">>), Str(<<"Date">>) >>,
              << Str(<<"CASE", " ", "#">>), Str(<<"DATE">>), Str(<<"LOCATION">>) >>,
              << Str(<<"DATE", ":">>), None, Str(<<"LOCATION", " ">>) >> }
        DataRows ==
            UNION {[1..n -> {Str(<<"25-01409">>), None}] : n \in 0..3}
            \cup { << Str(<<" ">>) >>,
                   << Str(<<" ">>), None >>,
                   << None, Str(<<" ">>), Str(<<"25-01409">>) >> }
        TableRows == HeaderLikeRows \cup DataRows
    IN
    UNION {[1..n -> TableRows] : n \in 0..MaxTableRows}

\* matches = sum(1 for cell in row if ...)
MatchesIn(row) ==
    LET
        header_keywords ==
            << <<"case">>, <<"incident">>, <<"date">>, <<"time">>, <<"offense">>,
               <<"location">>, <<"address">> >>
        \* isinstance(cell, str) and any(keyword in cell.lower() for keyword in header_keywords)
        KeywordCell(cell) ==
            cell.type = "str" /\ AnyKeyword(header_keywords, lower(cell.value))
    IN
    Cardinality({i \in 1..Len(row) : KeywordCell(row[i])})

\* find_header_row: the index (from 0) of the first row with two or more
\* matches, <<>> for None
find_header_row(table) ==
    LET found == {i \in 1..Len(table) : table[i] # <<>> /\ MatchesIn(table[i]) >= 2}
    IN  IF found = {} THEN <<>> ELSE << FirstIndex(found) - 1 >>

\* "cell and str(cell).strip() != ''"
HasText(cell) == cell.type = "str" /\ Strip(cell.value) # <<>>

RECURSIVE RecordFrom(_, _, _, _)
\* the loop "for i, cell in enumerate(row)": record[header] = cell.strip()
RecordFrom(row, headers, i, record) ==
    IF i > Len(row) THEN record
    ELSE IF i <= Len(headers) /\ HasText(row[i])
         THEN RecordFrom(row, headers, i + 1,
                         DictSet(record, headers[i], Join(Strip(row[i].value))))
         ELSE RecordFrom(row, headers, i + 1, record)

RECURSIVE DataRecords(_, _)
DataRecords(rows, headers) ==
    LET
        common_keys == << "CASE #", "DATE", "TIME", "LOCATION", "OFFENSE" >>
        \* any(record.get(key) for key in common_keys if key in record)
        HasKeyData(record) ==
            \E k \in 1..Len(common_keys) :
                common_keys[k] \in DOMAIN record /\ record[common_keys[k]] # ""
        \* what one data row adds to all_data: nothing for an empty or blank row,
        \* for a row with no cell under a header, and for a record without key data
        RowRecords(row, names) ==
            IF row = <<>> \/ \A i \in 1..Len(row) : ~HasText(row[i]) THEN <<>>
            ELSE LET record == RecordFrom(row, names, 1, EmptyDict)
                 IN  IF record = EmptyDict THEN <<>>
                     ELSE IF HasKeyData(record) THEN <<record>>
                     ELSE <<>>
    IN
    IF rows = <<>> THEN <<>>
    ELSE RowRecords(Head(rows), headers) \o DataRecords(Tail(rows), headers)

\* the body of "for t_idx, table in enumerate(tables)": an empty table and a
\* table without header row are skipped
ExtractTable(table) ==
    LET
        \* headers = [h.strip() if h else "" for h in table[header_idx]]
        HeadersOf(row) ==
            [i \in 1..Len(row) |-> IF row[i].type = "str" THEN Join(Strip(row[i].value)) ELSE ""]
    IN
    IF table = <<>> \/ \A i \in 1..Len(table) : table[i] = <<>>
    THEN [header_idx |-> <<>>, all_data |-> <<>>]
    ELSE LET header_idx == find_header_row(table)
         IN  IF header_idx = <<>> THEN [header_idx |-> <<>>, all_data |-> <<>>]
             ELSE [ header_idx |-> header_idx,
                    all_data |-> DataRecords(
                        SubSeq(table, header_idx[1] + 2, Len(table)),
                        HeadersOf(table[header_idx[1] + 1])) ]

InitTables ==
    /\ PipelineIdle
    /\ ParserIdle
    /\ arg \in PageTables
    /\ returned = <<>>

\* extract_tables_from_pdf on a page with one table
ExtractTables ==
    /\ returned = <<>>
    /\ returned' = << ExtractTable(arg) >>
    /\ UNCHANGED arg
    /\ UNCHANGED step4_vars
    /\ UNCHANGED web_vars
    /\ UNCHANGED orchestrator_vars
    /\ UNCHANGED parser_vars

SpecTables == InitTables /\ [][ExtractTables]_vars

\* --------------------- archive/extract_data.py: parse_text_manually
MaxLines == 3   \* lines of the text of one page

DateValues == {"4/10/2025", "4/11/2025"}
ClockValues == {"2259", "0815"}

PageTexts ==
    LET
        \* A line is spelled as items separated by single blanks: labels and values.
        CaseNumbers == {"25-01409", "25-01410"}
        LocationValues == {"ALMA", "PARK"}
        OffenseValues == {"THEFT", "DUI"}
        LabelledFields ==
            {<<"Case #:", v>> : v \in CaseNumbers}
            \cup {<<"Date:", v>> : v \in DateValues}
            \cup {<<"Time:", v>> : v \in ClockValues}
            \cup {<<"Location:", v>> : v \in LocationValues}
            \cup {<<"Offense:", v>> : v \in OffenseValues}
        \* the lines of a page: one field, some pairs of fields, and the empty line
        TextLines ==
            LabelledFields
            \cup { <<"Case #:", "25-01409", "Date:", "4/10/2025">>,
                   <<"Location:", "ALMA", "Offense:", "THEFT">>,
                   <<"Date:", "4/10/2025", "Date:", "4/11/2025">>,
                   <<"Case #:", "25-01409", "Case #:", "25-01410">>,
                   <<"Case #:", "25-01410", "Time:", "0815">>,
                   <<>> }
    IN
    UNION {[1..n -> TextLines] : n \in 0..MaxLines}

\* pattern.search(line): <<>> for no match, else <<group(1).strip()>>.
\* (?:case|incident)\s*#?[:]?\s*(\S+): the item after the first case label;
\* at the end of the line the group is the label's own ":"
case_pattern(line) ==
    LET at == {i \in 1..Len(line) : line[i] = "Case #:"}
    IN  IF at = {} THEN <<>>
        ELSE IF FirstIndex(at) < Len(line) THEN << line[FirstIndex(at) + 1] >>
        ELSE << ":" >>

\* a label followed by a value of the shape the pattern asks for
ShapedAfter(line, label, shapes) ==
    LET at == {i \in 1..(Len(line) - 1) : line[i] = label /\ line[i + 1] \in shapes}
    IN  IF at = {} THEN <<>> ELSE << line[FirstIndex(at) + 1] >>

\* (?:date|occurred)\s*[:]?\s*(\d{1,2}[/-]\d{1,2}[/-]\d{2,4}|...)
date_pattern(line) == ShapedAfter(line, "Date:", DateValues)

\* time\s*[:]?\s*(\d{1,2}:?\d{2}(?:\s*[ap]\.?m\.?)?)
time_pattern(line) == ShapedAfter(line, "Time:", ClockValues)

\* a label and "(.*)": the rest of the line after the first such label
RestAfter(line, label) ==
    LET at == {i \in 1..Len(line) : line[i] = label}
    IN  IF at = {} THEN <<>>
        ELSE << JoinWords(SubSeq(line, FirstIndex(at) + 1, Len(line))) >>

\* (?:location|address)\s*[:]?\s*(.*)
location_pattern(line) == RestAfter(line, "Location:")

\* (?:offense|crime|incident type)\s*[:]?\s*(.*)
offense_pattern(line) == RestAfter(line, "Offense:")

\* the assignment made whether or not the field is already there
OverwriteField(record, key, match) ==
    IF match # <<>> THEN DictSet(record, key, match[1]) ELSE record

\* "if date_match and 'DATE' not in current_record: current_record['DATE'] = ..."
MergeField(record, key, match) ==
    IF match # <<>> /\ key \notin DOMAIN record
    THEN DictSet(record, key, match[1])
    ELSE record

\* the four searches on one line and their four guarded assignments
MergeLine(record, line) ==
    MergeField(
        MergeField(
            MergeField(
                MergeField(record, "DATE", date_pattern(line)),
                "TIME", time_pattern(line)),
            "LOCATION", location_pattern(line)),
        "OFFENSE", offense_pattern(line))

\* a record is saved whatever it holds
AnyRecord(record) == record # EmptyDict

\* "if current_record and len(current_record) > 1"
HasData(record) == record # EmptyDict /\ Cardinality(DOMAIN record) > 1

InitParse ==
    /\ PipelineIdle
    /\ AnalysisIdle
    /\ lines \in PageTexts
    /\ line_num = 0
    /\ current_record = EmptyDict
    /\ data = <<>>
    /\ parse_pc = "loop"

\* one turn of "for line_num, line in enumerate(lines)"
ParseLine ==
    /\ parse_pc = "loop"
    /\ line_num < Len(lines)
    /\ LET line == lines[line_num + 1]
           case_match == case_pattern(line)
       IN  IF line = <<>>
           THEN UNCHANGED << current_record, data >>
           ELSE IF case_match # <<>>
           THEN /\ data' = IF HasData(current_record)
                           THEN Append(data, current_record) ELSE data
                /\ current_record' =
                       MergeLine(DictSet(EmptyDict, "CASE #", case_match[1]), line)
           ELSE IF current_record # EmptyDict
           THEN /\ current_record' = MergeLine(current_record, line)
                /\ UNCHANGED data
           ELSE UNCHANGED << current_record, data >>
    /\ line_num' = line_num + 1
    /\ UNCHANGED << lines, parse_pc >>
    /\ UNCHANGED step4_vars
    /\ UNCHANGED web_vars
    /\ UNCHANGED analysis_vars
    /\ UNCHANGED orchestrator_vars

\* after the loop: "Add the last record if it exists and has data", return data
ReturnData ==
    /\ parse_pc = "loop"
    /\ line_num = Len(lines)
    /\ data' = IF HasData(current_record) THEN Append(data, current_record) ELSE data
    /\ parse_pc' = "done"
    /\ UNCHANGED << lines, line_num, current_record >>
    /\ UNCHANGED step4_vars
    /\ UNCHANGED web_vars
    /\ UNCHANGED analysis_vars
    /\ UNCHANGED orchestrator_vars

NextParse == ParseLine \/ ReturnData

SpecParse == InitParse /\ [][NextParse]_vars

\* ------------------------------------------ run_pipeline.py: the command
LastStep == 5   \* choices=range(1, 6)

DateTexts ==
    LET
        \* The dates of the command line, spelled character by character: a year, a
        \* month and a day around a separator, and the empty text.
        Years  == { <<"2", "0", "2", "5">>, <<"2", "5">> }
        Months == { <<"0", "4">>, <<"4">>, <<"1", "3">> }
        Days   == { <<"0", "7">>, <<"0", "8">>, <<"7">>, <<"3", "1">> }
        Separators == { "-", "/" }
    IN
    { y \o <<s>> \o m \o <<s>> \o d :
        y \in Years, m \in Months, d \in Days, s \in Separators }
    \cup { <<>> }

\* datetime.strptime(text, "%Y-%m-%d"): <<>> for ValueError (no match, text
\* left over, or a day the month does not have), else the date
strptime(text) ==
    LET
        \* the regular expression strptime builds for "%Y-%m-%d":
        \* (?P<Y>\d\d\d\d)-(?P<m>1[0-2]|0[1-9]|[1-9])-(?P<d>3[0-1]|[1-2]\d|0[1-9]|[1-9]| [1-9])
        YearRe(y) == Len(y) = 4 /\ \A i \in 1..4 : IsDigit(y[i])
        MonthRe(m) ==
            \/ Len(m) = 2 /\ m[1] = "1" /\ m[2] \in {"0", "1", "2"}
            \/ Len(m) = 2 /\ m[1] = "0" /\ IsDigit(m[2]) /\ m[2] # "0"
            \/ Len(m) = 1 /\ IsDigit(m[1]) /\ m[1] # "0"
        DayRe(d) ==
            \/ Len(d) = 2 /\ d[1] = "3" /\ d[2] \in {"0", "1"}
            \/ Len(d) = 2 /\ d[1] \in {"1", "2"} /\ IsDigit(d[2])
            \/ Len(d) = 2 /\ d[1] = "0" /\ IsDigit(d[2]) /\ d[2] # "0"
            \/ Len(d) = 1 /\ IsDigit(d[1]) /\ d[1] # "0"
            \/ Len(d) = 2 /\ d[1] = " " /\ IsDigit(d[2]) /\ d[2] # "0"
        \* the places where the second "-" can stand in a text the expression matches
        \* in full (a match that leaves text over is "unconverted data remains")
        SecondDash(s) ==
            { j \in 7..(Len(s) - 1) :
                /\ YearRe(SubSeq(s, 1, 4))
                /\ s[5] = "-"
                /\ MonthRe(SubSeq(s, 6, j - 1))
                /\ s[j] = "-"
                /\ DayRe(SubSeq(s, j + 1, Len(s))) }
        \* int() of a matched group; int(" 7") is 7
        GroupValue(group) == IF group[1] = " " THEN int(Tail(group)) ELSE int(group)
        IsLeap(year) == year % 4 = 0 /\ (year % 100 # 0 \/ year % 400 = 0)
        DaysInMonth(year, month) ==
            IF month = 2 THEN (IF IsLeap(year) THEN 29 ELSE 28)
            ELSE IF month \in {4, 6, 9, 11} THEN 30 ELSE 31
    IN
    IF SecondDash(text) = {} THEN <<>>
    ELSE LET j == CHOOSE k \in SecondDash(text) : TRUE
             year == int(SubSeq(text, 1, 4))
             month == GroupValue(SubSeq(text, 6, j - 1))
             day == GroupValue(SubSeq(text, j + 1, Len(text)))
         IN  IF year < 1 \/ day > DaysInMonth(year, month) THEN <<>>
             ELSE << <<year, month, day>> >>

\* start > end on two dates
After(a, b) ==
    \/ a[1] > b[1]
    \/ a[1] = b[1] /\ a[2] > b[2]
    \/ a[1] = b[1] /\ a[2] = b[2] /\ a[3] > b[3]

\* the "basic date validation" of __main__, and the same test at the head of
\* step 1's main: TRUE when it ends in sys.exit(1)
DatesRejected(start_text, end_text) ==
    LET start == strptime(start_text)
        end == strptime(end_text)
    IN  \/ start = <<>>
        \/ end = <<>>
        \/ After(start[1], end[1])

InitPipeline ==
    /\ API_KEY = "key"
    /\ geo_file = MissingFile
    /\ offense_file = MissingFile
    /\ Fresh
    /\ NoHistory
    /\ current_step = 0
    /\ exit_code = "none"
    /\ WebIdle
    /\ AnalysisIdle
    /\ start_date \in DateTexts
    /\ end_date \in DateTexts
    /\ start_step \in 1..LastStep
    /\ main_pc = "args"
    /\ steps_run = <<>>
    /\ ParserIdle

\* __main__: parse_args, the date validation, then main_orchestrator
ValidateDates ==
    /\ main_pc = "args"
    /\ IF DatesRejected(start_date, end_date)
       THEN /\ exit_code' = "1"
            /\ main_pc' = "exited"
            /\ UNCHANGED current_step
       ELSE /\ main_pc' = "orchestrator"
            /\ current_step' = 1
            /\ UNCHANGED exit_code
    /\ UNCHANGED << start_date, end_date, start_step, steps_run >>
    /\ UNCHANGED << API_KEY, geo_file, offense_file, pc, runs, files_left,
                    geocoding_cache, offense_category_cache, initial_geo_cache_size,
                    initial_offense_cache_size, processed_count, failed_count,
                    written, exit, loaded, sent, llm_called, llm_recalled,
                    api_called, api_recalled, run_calls, cold, geo_saved,
                    offense_saved, save_failed >>
    /\ UNCHANGED web_vars
    /\ UNCHANGED analysis_vars
    /\ UNCHANGED parser_vars

\* How a step function can end. download_main repeats the date test and
\* calls sys.exit(1) itself; process_all_pdfs may return None, which is only
\* warned about; what run_processing and prepare_data_for_website do is
\* followed in Spec and SpecWeb.
StepOutcomes(step) ==
    IF step = 1 /\ DatesRejected(start_date, end_date) THEN {"SystemExit"}
    ELSE IF step = 2 THEN {"returned", "returned None", "raised"}
    ELSE {"returned", "raised"}

\* a step that raised is passed over like one that returned
StepBlockNoExit(step) ==
    /\ main_pc = "orchestrator"
    /\ current_step = step
    /\ IF start_step <= step
       THEN \E outcome \in StepOutcomes(step) :
               steps_run' = Append(steps_run, [step |-> step, outcome |-> outcome])
       ELSE UNCHANGED steps_run
    /\ IF step < LastStep
       THEN current_step' = step + 1 /\ UNCHANGED << main_pc, exit_code >>
       ELSE main_pc' = "exited" /\ exit_code' = "0" /\ UNCHANGED current_step
    /\ UNCHANGED << start_date, end_date, start_step >>
    /\ UNCHANGED << API_KEY, geo_file, offense_file, pc, runs, files_left,
                    geocoding_cache, offense_category_cache, initial_geo_cache_size,
                    initial_offense_cache_size, processed_count, failed_count,
                    written, exit, loaded, sent, llm_called, llm_recalled,
                    api_called, api_recalled, run_calls, cold, geo_saved,
                    offense_saved, save_failed >>
    /\ UNCHANGED web_vars
    /\ UNCHANGED analysis_vars
    /\ UNCHANGED parser_vars

\* One "--- Step n ---" block of main_orchestrator: current_step = n; when
\* start_step <= current_step the step function is called, and an Exception
\* (or the SystemExit of step 1, which "except Exception" lets through) ends
\* the process with status 1; otherwise the step is skipped. After the last
\* block main_orchestrator returns and the process ends with status 0.
StepBlock(step) ==
    /\ main_pc = "orchestrator"
    /\ current_step = step
    /\ \E outcome \in (IF start_step <= step THEN StepOutcomes(step) ELSE {"skipped"}) :
          /\ steps_run' = IF outcome = "skipped" THEN steps_run
                          ELSE Append(steps_run, [step |-> step, outcome |-> outcome])
          /\ IF outcome \in {"raised", "SystemExit"}
             THEN /\ exit_code' = "1"
                  /\ main_pc' = "exited"
                  /\ UNCHANGED current_step
             ELSE IF step < LastStep
             THEN /\ current_step' = step + 1
                  /\ UNCHANGED << main_pc, exit_code >>
             ELSE /\ main_pc' = "exited"
                  /\ exit_code' = "0"
                  /\ UNCHANGED current_step
    /\ UNCHANGED << start_date, end_date, start_step >>
    /\ UNCHANGED << API_KEY, geo_file, offense_file, pc, runs, files_left,
                    geocoding_cache, offense_category_cache, initial_geo_cache_size,
                    initial_offense_cache_size, processed_count, failed_count,
                    written, exit, loaded, sent, llm_called, llm_recalled,
                    api_called, api_recalled, run_calls, cold, geo_saved,
                    offense_saved, save_failed >>
    /\ UNCHANGED web_vars
    /\ UNCHANGED analysis_vars
    /\ UNCHANGED parser_vars

DownloadPdfs == StepBlock(1)
PdfToMarkdown == StepBlock(2)
MarkdownToCsv == StepBlock(3)
ProcessCsvs == StepBlock(4)
PrepareWebsiteData == StepBlock(5)

NextPipeline ==
    \/ ValidateDates
    \/ DownloadPdfs
    \/ PdfToMarkdown
    \/ MarkdownToCsv
    \/ ProcessCsvs
    \/ PrepareWebsiteData

SpecPipeline == InitPipeline /\ [][NextPipeline]_vars

\* ======================================================== properties
IndexesOf(df) == {df[i].index : i \in 1..Len(df)}

SetMin(S) == CHOOSE m \in S : \A x \in S : m <= x

SameKey(df, row) == {j \in 1..Len(df) : DedupKey(df[j]) = DedupKey(row)}

WithoutIndex(df) ==
    {[case_number |-> df[i].case_number, date |-> df[i].date,
      time |-> df[i].time, latitude |-> df[i].latitude,
      police_record_date_str |-> df[i].police_record_date_str] : i \in 1..Len(df)}

\* C1: after drop_duplicates, every (case_number, date) key with a
\* non-empty case number has exactly one surviving row, that row is the
\* first row of the concatenation with the key, and records_removed is the
\* number of rows of the concatenation that did not survive.
C1_FirstSeenWins ==
    web_pc = "done" =>
        /\ \A i \in 1..Len(combined_df) :
              combined_df[i].case_number # NaN =>
                  /\ Cardinality(SameKey(deduped_df, combined_df[i])) = 1
                  /\ \A k \in SameKey(deduped_df, combined_df[i]) :
                        deduped_df[k] = combined_df[SetMin(SameKey(combined_df, combined_df[i]))]
        /\ records_removed =
              Cardinality((1..Len(combined_df)) \ IndexesOf(deduped_df))

\* a duplicate with a case number was dropped
C1_Witness ==
    /\ web_pc = "done"
    /\ records_removed > 0
    /\ \E i, j \in 1..Len(combined_df) :
          /\ i < j
          /\ combined_df[i].case_number # NaN
          /\ DedupKey(combined_df[i]) = DedupKey(combined_df[j])
          /\ combined_df[i].police_record_date_str # combined_df[j].police_record_date_str

\* C2: every row whose case number is empty survives drop_duplicates,
\* whatever the other rows are.
C2_EmptyCaseNumbersKept ==
    web_pc = "done" =>
        \A i \in 1..Len(combined_df) :
            combined_df[i].case_number = NaN => i \in IndexesOf(deduped_df)

\* C3: the row kept for a key comes from the lexicographically first file
\* holding the key, and the surviving rows are those of a sorted listing.
C3_ListingOrderIrrelevant ==
    web_pc = "done" =>
        /\ \A k \in 1..Len(deduped_df) : \A i \in SameKey(combined_df, deduped_df[k]) :
              Rank(deduped_df[k].police_record_date_str)
                  <= Rank(combined_df[i].police_record_date_str)
        /\ WithoutIndex(deduped_df) =
              WithoutIndex(DropDuplicates(Concat(ReadAll(
                  [i \in 1..Len(processed_dir) |-> WebNames[i]], processed_dir))))

\* C4: every entry the caches held when they were loaded is still there
\* with the same value.
C4_LoadedEntriesKept ==
    /\ \A k \in DOMAIN loaded.geo :
          k \in DOMAIN geocoding_cache /\ geocoding_cache[k] = loaded.geo[k]
    /\ \A k \in DOMAIN loaded.offense :
          k \in DOMAIN offense_category_cache
          /\ offense_category_cache[k] = loaded.offense[k]

\* C5: as long as every offense string and every query of the files
\* processed is a key of the loaded caches, the run has made no search_place
\* call and no LLM call.
C5_WarmRunMakesNoCalls ==
    ~cold => run_calls.llm = {} /\ run_calls.api = {}

\* a warm run that categorized and geocoded a row, finished
C5_Witness ==
    /\ pc = "done"
    /\ ~cold
    /\ \E i \in 1..Len(written) :
          written[i].offense_type = "DUI" /\ written[i].location = <<"ALMA ST">>

\* C6: over runs that load the cache the runs before them saved (no save
\* of the geocoding cache failed, and the file holds a JSON object, so that
\* no run stopped at its first search), no query is searched twice over all
\* files and runs; every query searched by a run that goes on to the next
\* location is a key of the in-memory cache, whatever the search returned.
C6_OneSearchPerQuery ==
    /\ (~save_failed.geo /\ ~LoadsList(geo_file)) => api_recalled = {}
    /\ exit \notin {"TypeError", "AttributeError"} =>
           run_calls.api \subseteq DOMAIN geocoding_cache

\* a later run answers from the cache a query an earlier run failed to find
C6_Witness ==
    /\ runs = 2
    /\ pc = "done"
    /\ ~save_failed.geo
    /\ api_called # {}
    /\ run_calls.api = {}
    /\ \E i \in 1..Len(written) :
          /\ FullQuery(written[i].location) \in api_called
          /\ written[i].location_interpretation = "not_found"

\* C7: unless a save of the offense cache failed, no offense string is sent
\* to the classifier twice.
C7_OneClassificationPerOffense ==
    ~save_failed.offense => llm_recalled = {}

\* C8: every row written carries one of the ten OFFENSE_CATEGORIES.
C8_CategoryClosed ==
    \A i \in 1..Len(written) : written[i].offense_category \in CategorySet

\* C9: after process_csv every string it sent to the classifier is a key of
\* the offense cache with a value in OFFENSE_CATEGORIES.
C9_SentOffensesCached ==
    \A o \in Range(sent) :
        o \in DOMAIN offense_category_cache
        /\ offense_category_cache[o] \in CategorySet

\* run_processing went through its file loop and its saves
FinishedRun ==
    /\ pc = "done"
    /\ exit \in {"ok", "RuntimeError"}
    /\ processed_count + failed_count > 0

LocationInterpretations ==
    { "intersection", "street_address_or_premise", "route", "specific_place",
      "general_area_or_other", "unknown", "invalid_input", "not_found" }

C12_UnusableCacheIsEmpty ==
    /\ exit \notin {"TypeError", "AttributeError"}
    /\ (pc \in {"loop", "done"} /\ exit # "none" /\ geo_file.state # "ok") =>
           run_calls.api \subseteq DOMAIN geocoding_cache
    /\ (pc = "loop" /\ geo_file.state # "ok") => loaded.geo = EmptyDict
    /\ (pc = "loop" /\ offense_file.state # "ok") => loaded.offense = EmptyDict

\* C13: a run whose save of a cache failed because the directory is not
\* writable ends as a failure: run_processing raises and the orchestrator
\* exits non-zero.
C13_FailedSaveIsFatal ==
    (pc = "done" /\ (geo_saved = "failed" \/ offense_saved = "failed")) =>
        exit \notin {"ok", "running", "none"}

\* C14: without GOOGLE_MAPS_API_KEY run_processing raises EnvironmentError
\* before it reads a CSV file; it calls neither service, loads and writes no
\* cache file, and the orchestrator never reaches step 5 and leaves with
\* sys.exit(1).
C14_MissingKeyIsFatal ==
    API_KEY = "" =>
        /\ pc # "loop"
        /\ exit \in {"none", "EnvironmentError"}
        /\ processed_count + failed_count = 0 /\ written = <<>>
        /\ run_calls = [llm |-> {}, api |-> {}]
        /\ llm_called = {} /\ api_called = {}
        /\ geo_saved = "pending" /\ offense_saved = "pending"
        /\ geo_file \in InitialGeoFiles /\ offense_file \in InitialOffenseFiles
        /\ current_step = 4
        /\ web_pc = "ready"
        /\ exit_code \in {"none", "1"}
        /\ pc = "done" => exit = "EnvironmentError"

\* the orchestrator has left with exit code 1 on the missing key
C14_Witness ==
    /\ API_KEY = ""
    /\ pc = "done"
    /\ exit = "EnvironmentError"
    /\ exit_code = "1"

\* the order the categories are said to be tried in
PriorityOrder ==
    << "Theft", "Traffic", "Assault", "Property Damage", "Drugs/Alcohol",
       "Mental Health", "Noise/Disturbance", "Fraud", "Warrant" >>

KeywordsOf(name) ==
    categories[CHOOSE i \in 1..Len(categories) : categories[i].category = name].keywords

\* some keyword of the category occurs in the lowercased text
Matches(name, text) == AnyKeyword(KeywordsOf(name), lower(text))

NonEmptyStr(v) == v.type = "str" /\ v.value # <<>>

\* C15: for a non-empty text, the category returned is the first one of
\* Theft, Traffic, Assault, Property Damage, Drugs/Alcohol, Mental Health,
\* Noise/Disturbance, Fraud, Warrant that has a keyword in the lowercased
\* text; of two categories that match, the earlier one is returned.
C15_FirstCategoryInOrder ==
    (returned # <<>> /\ NonEmptyStr(arg)) =>
        \A i \in 1..Len(PriorityOrder) :
            (/\ Matches(PriorityOrder[i], arg.value)
             /\ \A j \in 1..(i - 1) : ~Matches(PriorityOrder[j], arg.value))
            => returned[1] = PriorityOrder[i]

\* a text with keywords of Theft and of Fraud ("FRAUD THEFT") was categorized
C15_Witness ==
    /\ returned = <<"Theft">>
    /\ NonEmptyStr(arg)
    /\ Matches("Theft", arg.value)
    /\ Matches("Fraud", arg.value)
    /\ ~Contains(lower(arg.value), <<"identity", " ", "theft">>)

NoMatch(text) == \A i \in 1..Len(PriorityOrder) : ~Matches(PriorityOrder[i], text)

\* C16 as claimed: 'Unknown' is returned for empty and non-string input and
\* for every text without a keyword of any category.
C16_UnmatchedIsUnknown ==
    (returned # <<>> /\ (~NonEmptyStr(arg) \/ NoMatch(arg.value))) =>
        returned[1] = "Unknown"

\* C16 amended: 'Unknown' is returned for empty and non-string input, and
\* 'Other' for every non-empty text without a keyword of any category.
C16_UnknownOrOther ==
    returned # <<>> =>
        /\ ~NonEmptyStr(arg) => returned[1] = "Unknown"
        /\ (NonEmptyStr(arg) /\ NoMatch(arg.value)) => returned[1] = "Other"
        /\ (NonEmptyStr(arg) /\ ~NoMatch(arg.value)) =>
               returned[1] \notin {"Unknown", "Other"}

\* a missing cell (float nan) was categorized
C16_Witness ==
    /\ arg = FloatNaN
    /\ returned = <<"Unknown">>

\* the positions in the streets list of the names found in the text
StreetsIn(text) == {i \in 1..Len(streets) : StreetFound(streets[i], text)}

\* C17: for a location holding a name of the streets list as a whole word,
\* in any case, the name returned is the first name of the list found in
\* it, whatever the suffix, intersection and fallback rules would give.
C17_KnownStreetFirst ==
    (returned # <<>> /\ NonEmptyStr(arg) /\ StreetsIn(arg.value) # {}) =>
        returned[1] = streets[FirstIndex(StreetsIn(arg.value))].name

\* '700 BLOCK ALMA ST', which the suffix rule would turn into 'ALMA/ST'
C17_Witness ==
    /\ arg = Str(<<"700", "BLOCK", "ALMA", "ST">>)
    /\ ByPattern(arg.value) = "ALMA/ST"
    /\ returned = <<"Alma">>

\* a text of four digits HHMM with HH <= 23 and MM <= 59
IsHHMM(v) ==
    /\ v.type = "str"
    /\ Len(v.value) = 4
    /\ \A i \in 1..4 : IsDigit(v.value[i])
    /\ int(SubSeq(v.value, 1, 2)) <= 23
    /\ int(SubSeq(v.value, 3, 4)) <= 59

\* C18: a four-digit 24-hour time HHMM is Morning from 0500 to 1159,
\* Afternoon from 1200 to 1659, Evening from 1700 to 2159 and Night
\* otherwise.
C18_BandOfHHMM ==
    (returned # <<>> /\ IsHHMM(arg)) =>
        LET hhmm == int(arg.value)
        IN  returned[1] =
                IF 500 <= hhmm /\ hhmm <= 1159 THEN "Morning"
                ELSE IF 1200 <= hhmm /\ hhmm <= 1659 THEN "Afternoon"
                ELSE IF 1700 <= hhmm /\ hhmm <= 2159 THEN "Evening"
                ELSE "Night"

\* the severity weight of a category; a category without a weight adds
\* nothing
WeightOf(category) ==
    IF \E i \in 1..Len(severity_weights) : severity_weights[i].category = category
    THEN severity_weights[CHOOSE i \in 1..Len(severity_weights) :
                              severity_weights[i].category = category].weight
    ELSE 0

IncidentsOn(df, street) == {i \in 1..Len(df) : df[i].street = street}

RECURSIVE SumOfWeights(_, _)
SumOfWeights(df, rows) ==
    IF rows = {} THEN 0
    ELSE LET i == CHOOSE r \in rows : TRUE
         IN  WeightOf(df[i].offense_category) + SumOfWeights(df, rows \ {i})

\* C19: in the safety table, for every street, safety_score times
\* incident_count is the sum of the severity weights of the street's
\* incidents, incident_count counting all of the street's incidents; the
\* table holds exactly the streets with two incidents or more, once each,
\* in ascending order of the score.
C19_SafetyTable ==
    (returned # <<>> /\ returned[1].kind = "stats") =>
        LET table == returned[1].safety_scores
        IN  /\ \A k \in 1..Len(table) :
                  /\ table[k].incident_count = Cardinality(IncidentsOn(arg, table[k].street))
                  /\ table[k].safety_score.num * table[k].incident_count
                        = SumOfWeights(arg, IncidentsOn(arg, table[k].street))
                              * table[k].safety_score.den
                  /\ table[k].incident_count >= 2
            /\ \A i, j \in 1..Len(table) : table[i].street = table[j].street => i = j
            /\ \A n \in 1..Len(arg) :
                  (arg[n].street # "None"
                   /\ Cardinality(IncidentsOn(arg, arg[n].street)) >= 2)
                  => \E k \in 1..Len(table) : table[k].street = arg[n].street
            /\ \A k \in 1..(Len(table) - 1) :
                  AtMost(table[k].safety_score, table[k + 1].safety_score)

\* two Theft and one Traffic on Alma score 16/3; Park, with one incident,
\* is left out
C19_Witness ==
    /\ returned # <<>>
    /\ returned[1].kind = "stats"
    /\ \E n \in 1..Len(arg) : arg[n].street = "Park"
    /\ Len(returned[1].safety_scores) = 1
    /\ returned[1].safety_scores[1].street = "Alma"
    /\ returned[1].safety_scores[1].safety_score = Quotient(16, 3)

\* C20 as claimed: the time written is an integer in 0..1439: HH*60+MM for
\* an input of four digits HHMM with HH <= 23 and MM <= 59, and 0 for any
\* other input.
C20_MinutesOfHHMM ==
    returned # <<>> =>
        /\ returned[1] \in 0..1439
        /\ IsHHMM(arg) =>
               returned[1] = int(SubSeq(arg.value, 1, 2)) * 60
                                 + int(SubSeq(arg.value, 3, 4))
        /\ ~IsHHMM(arg) => returned[1] = 0

\* the input up to its first ".", all of it when it has none
UpToDot(v) ==
    LET dots == {i \in 1..Len(v.value) : v.value[i] = "."}
    IN  IF v.type # "str" THEN v
        ELSE IF dots = {} THEN v
        ELSE Str(SubSeq(v.value, 1, FirstIndex(dots) - 1))

\* C20 amended: the time written is an integer in 0..1439: HH*60+MM when
\* the input up to its first "." is four digits HHMM with HH <= 23 and
\* MM <= 59, and 0 for any other input.
C20_MinutesUpToDot ==
    returned # <<>> =>
        /\ returned[1] \in 0..1439
        /\ IsHHMM(UpToDot(arg)) =>
               returned[1] = int(SubSeq(UpToDot(arg).value, 1, 2)) * 60
                                 + int(SubSeq(UpToDot(arg).value, 3, 4))
        /\ ~IsHHMM(UpToDot(arg)) => returned[1] = 0

\* 2259 gives 1379 minutes
C20_Witness ==
    /\ arg = Str(<<"2", "2", "5", "9">>)
    /\ returned = <<1379>>

\* C21: drop_duplicates on (case_number, date) applied a second time, to its
\* own output, removes no row and leaves the rows and their order as they
\* are, whatever the concatenated input was.
C21_DedupIdempotent ==
    web_pc = "done" =>
        /\ DropDuplicates(deduped_df) = deduped_df
        /\ Len(deduped_df) - Len(DropDuplicates(deduped_df)) = 0

\* the first pass dropped two rows of one key, one of them with an empty
\* case number
C21_Witness ==
    /\ web_pc = "done"
    /\ records_removed >= 2
    /\ \E i \in 1..Len(deduped_df) :
          /\ deduped_df[i].case_number = NaN
          /\ Cardinality(SameKey(combined_df, deduped_df[i])) >= 3

\* a text of the form YYYY-MM-DD: four digits, two digits and two digits
\* around "-"
InFormat(text) ==
    /\ Len(text) = 10
    /\ text[5] = "-" /\ text[8] = "-"
    /\ \A i \in {1, 2, 3, 4, 6, 7, 9, 10} : IsDigit(text[i])

FieldsOf(text) ==
    << int(SubSeq(text, 1, 4)), int(SubSeq(text, 6, 7)), int(SubSeq(text, 9, 10)) >>

InvalidDates ==
    \/ ~InFormat(start_date)
    \/ ~InFormat(end_date)
    \/ /\ InFormat(start_date) /\ InFormat(end_date)
       /\ After(FieldsOf(start_date), FieldsOf(end_date))

\* C22: when the start date is after the end date, or either date is not in
\* YYYY-MM-DD format, the command never enters main_orchestrator, runs no
\* step, and ends with a non-zero status.
C22_InvalidDatesExit ==
    (main_pc # "idle" /\ InvalidDates) =>
        /\ main_pc \in {"args", "exited"}
        /\ steps_run = <<>>
        /\ main_pc = "exited" => exit_code = "1"

\* the incidents of a frame: its (case_number, date) pairs with a case number
IncidentKeys(df) ==
    { << df[i].case_number, to_datetime(df[i].date) >> :
        i \in {k \in 1..Len(df) : df[k].case_number # NaN} }

CleanedKeys(df) ==
    { << df[i].case_number, df[i].date >> :
        i \in {k \in 1..Len(df) : df[k].case_number # NaN} }

RECURSIVE SumOf(_, _)
SumOf(f, S) ==
    IF S = {} THEN 0
    ELSE LET x == CHOOSE y \in S : TRUE IN f[x] + SumOf(f, S \ {x})

\* C23: in clean_data feeding analyze_data an incident is a (case_number,
\* date) pair: records with one case number and different dates are all
\* retained in the cleaned frame and counted in the offense statistics.
C23_CompositeIdentity ==
    returned # <<>> =>
        /\ IncidentKeys(arg) \subseteq CleanedKeys(returned[1].cleaned_df)
        /\ SumOf(returned[1].offense_counts, DOMAIN returned[1].offense_counts)
               >= Cardinality(IncidentKeys(arg))

\* C24: a run in which process_csv could not read a file (failed_count > 0)
\* goes through the rest of its files and its cache saves, does not end in
\* an exception on account of that file, and the orchestrator does not exit
\* with status 1 because of it.
C24_UnreadableFileSkipped ==
    failed_count > 0 =>
        /\ pc = "loop" \/ pc = "done"
        /\ (pc = "done" /\ exit \in {"ok", "RuntimeError"}) =>
               (files_left = 0 /\ geo_saved # "pending" /\ offense_saved # "pending")
        /\ exit # "RuntimeError"
        /\ ~(exit_code = "1" /\ exit = "RuntimeError")

\* the largest number of keyword cells a row of the table has
MostMatches(table) ==
    IF table = <<>> THEN 0
    ELSE CHOOSE m \in {MatchesIn(table[i]) : i \in 1..Len(table)} :
             \A i \in 1..Len(table) : MatchesIn(table[i]) <= m

\* C26: find_header_row returns the index of the row with the highest number
\* of keyword cells when that number is at least 2, and None when no row has
\* two keyword cells.
C26_HeaderHasMostKeywords ==
    (returned # <<>> /\ arg # <<>>) =>
        IF MostMatches(arg) >= 2
        THEN /\ find_header_row(arg) # <<>>
             /\ returned[1].header_idx = find_header_row(arg)
             /\ MatchesIn(arg[returned[1].header_idx[1] + 1]) = MostMatches(arg)
        ELSE returned[1].header_idx = <<>>

\* the key fields a header names, whatever its case or punctuation
KeyFieldNames == << <<"case">>, <<"date">>, <<"time">>, <<"location">>, <<"offense">> >>

\* the cell of a data row under a header naming a key field has text
KeyFieldFilled(row, header_row) ==
    \E i \in 1..Len(row) :
        /\ i <= Len(header_row)
        /\ header_row[i].type = "str"
        /\ AnyKeyword(KeyFieldNames, lower(header_row[i].value))
        /\ HasText(row[i])

\* C27: the rows after the header that appear in the output are exactly the
\* rows with text in at least one case-number, date, time, location or
\* offense column (columns found by substring match on the header); a row
\* shorter than the header with only blank or None cells adds nothing.
C27_RowsWithKeyData ==
    (returned # <<>> /\ returned[1].header_idx # <<>>) =>
        LET h == returned[1].header_idx[1] + 1
        IN  Len(returned[1].all_data) =
                Cardinality({k \in (h + 1)..Len(arg) : KeyFieldFilled(arg[k], arg[h])})

\* the case-number lines among the first n lines
CaseLines(n) == {i \in 1..n : case_pattern(lines[i]) # <<>>}

SetMax(S) == CHOOSE m \in S : \A x \in S : x <= m

\* the last of the first n lines that belongs to the record started at line c
SegmentEnd(c, n) ==
    IF \E k \in CaseLines(n) : k > c
    THEN SetMin({k \in CaseLines(n) : k > c}) - 1
    ELSE n

FieldMatch(key, line) ==
    IF key = "DATE" THEN date_pattern(line)
    ELSE IF key = "TIME" THEN time_pattern(line)
    ELSE IF key = "LOCATION" THEN location_pattern(line)
    ELSE offense_pattern(line)

FieldKeys == {"DATE", "TIME", "LOCATION", "OFFENSE"}

\* the lines c..e on which the pattern of a field matches
MatchLines(key, c, e) == {k \in c..e : FieldMatch(key, lines[k]) # <<>>}

\* the record of the case-number line c reaching to line e: its case number
\* and, for every field matched on those lines, the first match
FirstMatches(c, e) ==
    [key \in {"CASE #"} \cup {f \in FieldKeys : MatchLines(f, c, e) # {}} |->
        IF key = "CASE #" THEN case_pattern(lines[c])[1]
        ELSE FieldMatch(key, lines[SetMin(MatchLines(key, c, e))])[1]]

RECURSIVE RecordsOf(_, _, _)
\* the records of the case-number lines K, in the order of the lines
RecordsOf(i, n, K) ==
    IF i > n THEN <<>>
    ELSE (IF i \in K THEN << FirstMatches(i, SegmentEnd(i, n)) >> ELSE <<>>)
         \o RecordsOf(i + 1, n, K)

\* the case-number lines whose record is complete after n lines
ClosedCaseLines(n) ==
    {c \in CaseLines(n) : SegmentEnd(c, n) < n \/ parse_pc = "done"}

\* C28: a case-number line starts a new record; a field of the record holds
\* the first match since that line, never a later one; and the records
\* emitted are records of case-number lines, in the order of those lines.
C28_FirstMatchPerField ==
    parse_pc \in {"loop", "done"} =>
        /\ current_record =
               IF CaseLines(line_num) = {} THEN EmptyDict
               ELSE FirstMatches(SetMax(CaseLines(line_num)), line_num)
        /\ \E K \in SUBSET ClosedCaseLines(line_num) :
               data = RecordsOf(1, line_num, K)

\* two records were emitted, the first one after a second, different match
\* of a field it already held
C28_Witness ==
    /\ parse_pc = "done"
    /\ Len(data) = 2
    /\ data[1]["CASE #"] # data[2]["CASE #"]
    /\ \E c \in CaseLines(Len(lines)) : \E f \in FieldKeys :
          \E j, k \in MatchLines(f, c, SegmentEnd(c, Len(lines))) :
             /\ j < k
             /\ FieldMatch(f, lines[j]) # FieldMatch(f, lines[k])
             /\ f \in DOMAIN data[1]
             /\ data[1][f] = FieldMatch(f, lines[j])[1]

\* C29: every case-number line of the text has a record in the output, also
\* when no other field was found before the next case-number line or the
\* end of the text.
C29_EveryCaseLineEmitted ==
    parse_pc = "done" =>
        /\ Len(data) = Cardinality(CaseLines(Len(lines)))
        /\ data = RecordsOf(1, Len(lines), CaseLines(Len(lines)))

\* the case-number lines for which another field was found
CaseLinesWithField(n) ==
    {c \in CaseLines(n) : \E f \in FieldKeys : MatchLines(f, c, SegmentEnd(c, n)) # {}}

\* C29 as amended: the output holds one record for every case-number line
\* for which another field was found on that line or before the next
\* case-number line, and none for a case-number line without such a field.
C29_CaseLinesWithFieldEmitted ==
    parse_pc = "done" =>
        data = RecordsOf(1, Len(lines), CaseLinesWithField(Len(lines)))

\* a text with a case-number line that has a field and one that has none
C29_Witness ==
    /\ parse_pc = "done"
    /\ CaseLinesWithField(Len(lines)) # {}
    /\ CaseLines(Len(lines)) \ CaseLinesWithField(Len(lines)) # {}
    /\ Len(data) = 1

\* a step function that came back to main_orchestrator
ReturnedFrom(run) == run.outcome \in {"returned", "returned None"}

\* C25: once main_orchestrator is entered with start_step s, the steps called
\* are s, s+1, ... in increasing order without a gap, each called only after
\* the one before it returned; a call that raises ends the process with
\* status 1, nothing being called after it; and a process that ends with
\* status 0 has called exactly the steps s..5.
C25_StepsInOrder ==
    current_step >= 1 =>
        LET n == Len(steps_run)
        IN  /\ \A i \in 1..n : steps_run[i].step = start_step + i - 1
            /\ \A i \in 1..(n - 1) : ReturnedFrom(steps_run[i])
            /\ (n > 0 /\ ~ReturnedFrom(steps_run[n])) =>
                   (main_pc = "exited" /\ exit_code = "1")
            /\ (main_pc = "exited" /\ exit_code = "1") =>
                   (n > 0 /\ ~ReturnedFrom(steps_run[n]))
            /\ (main_pc = "exited" /\ exit_code = "0") =>
                   (n = LastStep - start_step + 1 /\ ReturnedFrom(steps_run[n]))
            /\ main_pc = "orchestrator" =>
                   n = (IF current_step > start_step THEN current_step - start_step ELSE 0)

\* started from step 3, step 3 returned and step 4 raised: status 1 and no
\* step 5
C25_Witness ==
    /\ main_pc = "exited"
    /\ exit_code = "1"
    /\ start_step = 3
    /\ Len(steps_run) = 2
    /\ steps_run[2] = [step |-> 4, outcome |-> "raised"]

\* C30: every (case_number, date) key of which some row read from the
\* processed files has coordinates has an incident in incidents.json,
\* wherever that row stands among the rows of its key.
C30_LocatedKeyPublished ==
    web_pc = "done" =>
        \A i \in 1..Len(combined_df) :
            combined_df[i].latitude # NaN =>
                \E k \in 1..Len(incidents) :
                    /\ incidents[k].case_number = Join(combined_df[i].case_number)
                    /\ incidents[k].date = Join(combined_df[i].date)

====
